---- MODULE Spec2Model ----
(***************************************************************************)
(* A model of bthread/butex.cpp: the futex-like wait/wake object (butex)   *)
(* shared by bthreads (u-tasks) and pthreads (k-threads).                  *)
(*                                                                         *)
(* Every thread of control is a process with a program counter pc[p]:      *)
(*   - Waiters: a thread or bthread that makes one call of butex_wait;     *)
(*     waiter w owns the on-stack waiter record w and the TaskMeta w.      *)
(*   - Actors: threads that run one of the wake-side programs              *)
(*     (wake, wake_all, wake_except, requeue, stop_butex_wait, ...).       *)
(*   - TimerThread: the single thread that runs timer callbacks.           *)
(* One step of a process is one access to shared memory (or one critical   *)
(* section body together with its unlock); taking a mutex is a step of     *)
(* its own.                                                                *)
(***************************************************************************)
EXTENDS Integers, Naturals, Sequences, FiniteSets, TLC

\* ------------------------------------------------------------------ bounds
NW == 1            \* number of callers that run butex_wait from its entry
NP == 3            \* number of further waiters, queued bthreads of the queue scenario

\* ------------------------------------------------------- program constants
NULL == 0
LEAST_SLEEP_US == 1
NOT_SIGNALLED == 0
SIGNALLED == 1
SAFE_TO_DESTROY == 2

Callers == 1..NW
Waiters == 1..(NW + NP)
\* Two threads that run the wake-side programs.
A1 == NW + NP + 1
A2 == NW + NP + 2
Actors == {A1, A2}
TimerThread == NW + NP + 3
Procs == 1..(NW + NP + 3)
\* abstime - now in microseconds, around LEAST_SLEEP_US
Timeouts == {LEAST_SLEEP_US - 1, LEAST_SLEEP_US, LEAST_SLEEP_US + 1}
Butexes == {1, 2}
\* A pointer that is neither NULL nor the address of a butex.
Uninit == Cardinality(Butexes) + 1
\* What a field that was never written can hold: whatever the stack held.
Garbage == Butexes \cup {NULL, Uninit}
Kinds == {"bthread", "ptask", "pthread"}

VARIABLES
    \* struct Butex
    value, unlock_nref, waiters, lock, freed,
    \* struct ButexWaiter / ButexBthreadWaiter / ButexPthreadWaiter
    container, waiter_state, sleep_id, sig,
    \* TaskMeta of the caller
    stop, interruptible, current_waiter,
    \* the arguments and the calling context of each butex_wait, with the
    \* value task.interruptible has when the call is made
    kind, expected_value, initial_butex, has_abstime, timeout_us, interruptible0,
    \* the local of butex_wait_uninterruptible: <<>> outside of the function,
    \* <<v>> when it holds v
    saved_interruptible,
    \* threads: program counter, rc/errno of the wait, scheduler run queue
    pc, rc, runnable,
    \* TimerThread: state of the task scheduled for each waiter
    timer,
    \* locals of erase_from_butex
    e_w, e_b, erased,
    \* locals of the actors' programs
    op, arg, arg2, front, pthread_waiters, bthread_waiters, nwakeup, ret,
    \* history: what happened to each waiter, and the queue that each
    \* butex_wake_all / butex_wake_except found (not read by the program)
    nresume, ndeq, dequeuer, snapshot, everq, late, crashed, stopseen,
    stopincall

butexVars == <<value, unlock_nref, waiters, lock, freed>>
recVars == <<container, waiter_state, sleep_id, sig>>
taskVars == <<stop, interruptible, current_waiter>>
argVars == <<kind, expected_value, initial_butex, has_abstime, timeout_us,
             interruptible0>>
eraseVars == <<e_w, e_b, erased>>
actorVars == <<op, arg, arg2, front, pthread_waiters, bthread_waiters,
               nwakeup, ret>>
histVars == <<nresume, ndeq, dequeuer, snapshot, everq, late, crashed, stopseen,
              stopincall>>
vars == <<butexVars, recVars, taskVars, argVars, saved_interruptible,
          pc, rc, runnable, timer,
          eraseVars, actorVars, histVars>>

\* ----------------------------------------------------------------- helpers
\* LinkNode::RemoveFromList
RemoveFromList(q, w) == SelectSeq(q, LAMBDA x : x # w)

\* LinkedList::Append
Append2(q, w) == Append(q, w)

InList(q, w) == \E i \in 1..Len(q) : q[i] = w

\* ButexWaiter::tid: "tids of pthreads are 0"
tid(w) == IF kind[w] = "bthread" THEN w ELSE 0

\* TaskMeta* task of butex_wait_from_pthread: NULL when there is no TaskGroup
HasTask(w) == kind[w] # "pthread"

\* bool set_waiter of butex_wait_from_pthread
set_waiter(w) == kind[w] = "ptask" /\ interruptible[w]

\* The waiter record exists from its construction in butex_wait to the return.
Alive(w) == pc[w] \notin {"absent", "idle", "done", "u_done"}

\* ------------------------------------------------------------ history only
NoteResume(w) ==
    /\ nresume' = [nresume EXCEPT ![w] = @ + 1]
    /\ late' = [late EXCEPT ![w] = @ \/ pc[w] = "done"]

NoteDequeue(ws, who) ==
    /\ ndeq' = [x \in Waiters |-> IF x \in ws THEN ndeq[x] + 1 ELSE ndeq[x]]
    /\ dequeuer' = [x \in Waiters |-> IF x \in ws THEN who ELSE dequeuer[x]]

NoteEnqueue(w) == everq' = [everq EXCEPT ![w] = TRUE]

\* ------------------------------------------------------------ timer service
\* TimerThread::unschedule(id): > 0 when the callback is running, 0 when the
\* task was prevented from running, < 0 when it has already run.
unschedule(w) ==
    CASE timer[w] = "running" -> 1
      [] timer[w] = "scheduled" -> 0
      [] OTHER -> -1

\* unsleep_if_necessary(w, timer_thread) < 0
UnsleepFails(w) == sleep_id[w] # 0 /\ unschedule(w) > 0

\* The effect of unsleep_if_necessary on the waiter and on the timer service.
unsleep_if_necessary(w) ==
    /\ sleep_id' = [sleep_id EXCEPT ![w] = IF UnsleepFails(w) THEN @ ELSE 0]
    /\ timer' = [timer EXCEPT ![w] =
                    IF sleep_id[w] # 0 /\ @ = "scheduled" THEN "cancelled" ELSE @]

\* ------------------------------------------------------------- butex_wait
Return(w, err) ==
    /\ pc' = [pc EXCEPT ![w] = "done"]
    /\ rc' = [rc EXCEPT ![w] = err]

NoteCall(w) ==
    stopincall' = [stopincall EXCEPT ![w] = HasTask(w) /\ stop[w]]

\* butex_wait: the value does not match at entry.
WaitMismatch(w) ==
    /\ pc[w] = "idle"
    /\ value[initial_butex[w]] # expected_value[w]
    /\ Return(w, "EWOULDBLOCK")
    /\ NoteCall(w)
    /\ UNCHANGED <<butexVars, recVars, taskVars, argVars, saved_interruptible,
                   runnable, timer,
                   eraseVars, actorVars>>
    /\ UNCHANGED <<nresume, ndeq, dequeuer, snapshot, everq, late, crashed, stopseen>>

\* butex_wait testing the deadline after TimerThread::schedule
WaitBthreadExpired_AfterSchedule(w) ==
    /\ pc[w] = "idle" /\ kind[w] = "bthread"
    /\ value[initial_butex[w]] = expected_value[w]
    /\ has_abstime[w] /\ timeout_us[w] <= LEAST_SLEEP_US
    /\ sleep_id' = [sleep_id EXCEPT ![w] = w]
    /\ timer' = [timer EXCEPT ![w] = "scheduled"]
    /\ Return(w, "ETIMEDOUT")
    /\ NoteCall(w)
    /\ UNCHANGED <<butexVars, container, waiter_state, sig, taskVars, argVars, saved_interruptible,
                   runnable, eraseVars, actorVars>>
    /\ UNCHANGED <<nresume, ndeq, dequeuer, snapshot, everq, late, crashed, stopseen>>

\* butex_wait on a bthread: the deadline is at most LEAST_SLEEP_US ahead.
WaitBthreadExpired(w) ==
    /\ pc[w] = "idle" /\ kind[w] = "bthread"
    /\ value[initial_butex[w]] = expected_value[w]
    /\ has_abstime[w] /\ timeout_us[w] <= LEAST_SLEEP_US
    /\ Return(w, "ETIMEDOUT")
    /\ NoteCall(w)
    /\ UNCHANGED <<butexVars, recVars, taskVars, argVars, saved_interruptible,
                   runnable, timer,
                   eraseVars, actorVars>>
    /\ UNCHANGED <<nresume, ndeq, dequeuer, snapshot, everq, late, crashed, stopseen>>

\* butex_wait on a bthread: TimerThread::schedule returns 0 (it was stopped).
WaitBthreadTimerStopped(w) ==
    /\ pc[w] = "idle" /\ kind[w] = "bthread"
    /\ value[initial_butex[w]] = expected_value[w]
    /\ has_abstime[w] /\ timeout_us[w] > LEAST_SLEEP_US
    /\ Return(w, "ESTOP")
    /\ NoteCall(w)
    /\ UNCHANGED <<butexVars, recVars, taskVars, argVars, saved_interruptible,
                   runnable, timer,
                   eraseVars, actorVars>>
    /\ UNCHANGED <<nresume, ndeq, dequeuer, snapshot, everq, late, crashed, stopseen>>

\* butex_wait on a bthread: build the waiter and arm its timer.
WaitBthreadArm(w) ==
    /\ pc[w] = "idle" /\ kind[w] = "bthread"
    /\ value[initial_butex[w]] = expected_value[w]
    /\ has_abstime[w] => timeout_us[w] > LEAST_SLEEP_US
    /\ container' = [container EXCEPT ![w] = NULL]
    /\ waiter_state' = [waiter_state EXCEPT ![w] =
                           IF has_abstime[w] THEN "TIMED" ELSE "NONE"]
    /\ sleep_id' = [sleep_id EXCEPT ![w] = IF has_abstime[w] THEN w ELSE 0]
    /\ timer' = [timer EXCEPT ![w] = IF has_abstime[w] THEN "scheduled" ELSE @]
    /\ pc' = [pc EXCEPT ![w] = "publish"]
    /\ NoteCall(w)
    /\ UNCHANGED <<butexVars, sig, taskVars, argVars, saved_interruptible,
                   rc, runnable,
                   eraseVars, actorVars>>
    /\ UNCHANGED <<nresume, ndeq, dequeuer, snapshot, everq, late, crashed, stopseen>>

\* butex_wait: publish the waiter for stop_butex_wait.
WaitBthreadPublish(w) ==
    /\ pc[w] = "publish"
    /\ current_waiter' = [current_waiter EXCEPT ![w] = w]
    /\ pc' = [pc EXCEPT ![w] = "sched"]
    /\ UNCHANGED <<butexVars, recVars, stop, interruptible, argVars, saved_interruptible,
                   rc, runnable,
                   timer, eraseVars, actorVars, histVars>>

\* set_remained + sched: the context is switched out and the remained
\* function wait_for_butex takes waiter_lock.
WaitForButexLock(w) ==
    /\ pc[w] = "sched"
    /\ lock[initial_butex[w]] = 0
    /\ lock' = [lock EXCEPT ![initial_butex[w]] = w]
    /\ pc' = [pc EXCEPT ![w] = "wfb_locked"]
    /\ UNCHANGED <<value, unlock_nref, waiters, freed, recVars, taskVars, argVars, saved_interruptible,
                   rc, runnable, timer, eraseVars, actorVars, histVars>>

\* wait_for_butex without the second check of the value under waiter_lock
ShouldQueue_NoValueCheck(w) ==
    /\ waiter_state[w] # "TIMEDOUT"
    /\ (~stop[w] \/ ~interruptible[w])

\* The condition under which wait_for_butex queues the waiter.
ShouldQueue(w) ==
    /\ value[initial_butex[w]] = expected_value[w]
    /\ waiter_state[w] # "TIMEDOUT"
    /\ (~stop[w] \/ ~interruptible[w])

\* wait_for_butex under waiter_lock: queue the waiter, or give up.
WaitForButexLocked(w) ==
    /\ pc[w] = "wfb_locked"
    /\ LET b == initial_butex[w] IN
       /\ lock' = [lock EXCEPT ![b] = 0]
       /\ IF ShouldQueue(w)
          THEN /\ waiters' = [waiters EXCEPT ![b] = Append2(@, w)]
               /\ container' = [container EXCEPT ![w] = b]
               /\ pc' = [pc EXCEPT ![w] = "suspended"]
               /\ NoteEnqueue(w)
          ELSE /\ pc' = [pc EXCEPT ![w] = "wfb_cancel"]
               /\ UNCHANGED <<waiters, container, everq>>
    /\ UNCHANGED <<value, unlock_nref, freed, waiter_state, sleep_id, sig, taskVars,
                   argVars, saved_interruptible,
                   rc, runnable, timer, eraseVars, actorVars>>
    /\ UNCHANGED <<nresume, ndeq, dequeuer, snapshot, late, crashed, stopseen, stopincall>>

\* wait_for_butex after the lock, not queued: cancel the timer and wake self.
WaitForButexCancel(w) ==
    /\ pc[w] = "wfb_cancel"
    /\ unsleep_if_necessary(w)
    /\ waiter_state' = [waiter_state EXCEPT ![w] =
                           IF @ # "TIMEDOUT" THEN "CANCELLED" ELSE @]
    /\ runnable' = [runnable EXCEPT ![w] = TRUE]
    /\ pc' = [pc EXCEPT ![w] = "suspended"]
    /\ UNCHANGED <<butexVars, container, sig, taskVars, argVars, saved_interruptible,
                   rc,
                   eraseVars, actorVars, histVars>>

\* The scheduler runs the bthread again: TaskGroup::sched returns.
Resume(w) ==
    /\ pc[w] = "suspended"
    /\ runnable[w]
    /\ runnable' = [runnable EXCEPT ![w] = FALSE]
    /\ pc' = [pc EXCEPT ![w] = "unsleep"]
    /\ UNCHANGED <<butexVars, recVars, taskVars, argVars, saved_interruptible,
                   rc, timer,
                   eraseVars, actorVars, histVars>>

\* BT_LOOP_WHEN(unsleep_if_necessary(&bbw, ...) < 0): spin while the timer
\* callback is running.
WaitUnsleep(w) ==
    /\ pc[w] = "unsleep"
    /\ ~UnsleepFails(w)
    /\ unsleep_if_necessary(w)
    /\ pc' = [pc EXCEPT ![w] = "clear_cw"]
    /\ UNCHANGED <<butexVars, container, waiter_state, sig, taskVars, argVars, saved_interruptible,
                   rc,
                   runnable, eraseVars, actorVars, histVars>>

\* butex_wait taking current_waiter back without the spin
WaitClearWaiter_NoSpin(w) ==
    /\ pc[w] = "clear_cw"
    /\ current_waiter' = [current_waiter EXCEPT ![w] = NULL]
    /\ stopseen' = [stopseen EXCEPT ![w] = stop[w]]
    /\ pc' = [pc EXCEPT ![w] = "result"]
    /\ UNCHANGED <<butexVars, recVars, stop, interruptible, argVars,
                   saved_interruptible, rc, runnable, timer, eraseVars, actorVars>>
    /\ UNCHANGED <<nresume, ndeq, dequeuer, snapshot, everq, late, crashed, stopincall>>

\* BT_LOOP_WHEN(current_waiter.exchange(NULL) == NULL): spin while a stopper
\* holds the waiter.
WaitClearWaiter(w) ==
    /\ pc[w] = "clear_cw"
    /\ current_waiter[w] # NULL
    /\ current_waiter' = [current_waiter EXCEPT ![w] = NULL]
    /\ stopseen' = [stopseen EXCEPT ![w] = stop[w]]
    /\ pc' = [pc EXCEPT ![w] = "result"]
    /\ UNCHANGED <<butexVars, recVars, stop, interruptible, argVars, saved_interruptible,
                   rc, runnable,
                   timer, eraseVars, actorVars>>
    /\ UNCHANGED <<nresume, ndeq, dequeuer, snapshot, everq, late, crashed, stopincall>>

\* butex_wait looking at waiter_state before task_meta->stop
WaitOutcome_StateFirst(w) ==
    IF waiter_state[w] = "TIMEDOUT" THEN "ETIMEDOUT"
    ELSE IF waiter_state[w] = "CANCELLED" THEN "EWOULDBLOCK"
    ELSE IF stop[w] THEN "ESTOP"
    ELSE "OK"

\* The result of butex_wait on a bthread.
WaitOutcome(w) ==
    IF stop[w] THEN "ESTOP"
    ELSE IF waiter_state[w] = "TIMEDOUT" THEN "ETIMEDOUT"
    ELSE IF waiter_state[w] = "CANCELLED" THEN "EWOULDBLOCK"
    ELSE "OK"

WaitResult(w) ==
    /\ pc[w] = "result"
    /\ Return(w, WaitOutcome(w))
    /\ UNCHANGED <<butexVars, recVars, taskVars, argVars, saved_interruptible,
                   runnable, timer,
                   eraseVars, actorVars, histVars>>

\* ------------------------------------------------ butex_wait_from_pthread
\* butex_wait_from_pthread: the relative timeout is at most LEAST_SLEEP_US.
WaitPthreadExpired(w) ==
    /\ pc[w] = "idle" /\ kind[w] # "bthread"
    /\ value[initial_butex[w]] = expected_value[w]
    /\ has_abstime[w] /\ timeout_us[w] <= LEAST_SLEEP_US
    /\ Return(w, "ETIMEDOUT")
    /\ NoteCall(w)
    /\ UNCHANGED <<butexVars, recVars, taskVars, argVars, saved_interruptible,
                   runnable, timer,
                   eraseVars, actorVars>>
    /\ UNCHANGED <<nresume, ndeq, dequeuer, snapshot, everq, late, crashed, stopseen>>

\* butex_wait_from_pthread: build the waiter; pw.container is not written.
WaitPthreadInit(w) ==
    /\ pc[w] = "idle" /\ kind[w] # "bthread"
    /\ value[initial_butex[w]] = expected_value[w]
    /\ has_abstime[w] => timeout_us[w] > LEAST_SLEEP_US
    /\ \E c \in Garbage : container' = [container EXCEPT ![w] = c]
    /\ sig' = [sig EXCEPT ![w] = NOT_SIGNALLED]
    /\ rc' = [rc EXCEPT ![w] = "OK"]
    /\ pc' = [pc EXCEPT ![w] = IF HasTask(w) /\ interruptible[w]
                               THEN "p_chkstop" ELSE "p_lock"]
    /\ NoteCall(w)
    /\ UNCHANGED <<butexVars, waiter_state, sleep_id, taskVars, argVars, saved_interruptible,
                   runnable,
                   timer, eraseVars, actorVars>>
    /\ UNCHANGED <<nresume, ndeq, dequeuer, snapshot, everq, late, crashed, stopseen>>

\* if (task->stop) { errno = ESTOP; return -1; }
WaitPthreadCheckStop(w) ==
    /\ pc[w] = "p_chkstop"
    /\ IF stop[w]
       THEN Return(w, "ESTOP")
       ELSE /\ pc' = [pc EXCEPT ![w] = "p_publish"]
            /\ UNCHANGED rc
    /\ UNCHANGED <<butexVars, recVars, taskVars, argVars, saved_interruptible,
                   runnable, timer,
                   eraseVars, actorVars, histVars>>

\* task->current_waiter.store(&pw)
WaitPthreadPublish(w) ==
    /\ pc[w] = "p_publish"
    /\ current_waiter' = [current_waiter EXCEPT ![w] = w]
    /\ pc' = [pc EXCEPT ![w] = "p_lock"]
    /\ UNCHANGED <<butexVars, recVars, stop, interruptible, argVars, saved_interruptible,
                   rc, runnable,
                   timer, eraseVars, actorVars, histVars>>

\* std::unique_lock<base::Mutex> lck(b->waiter_lock)
WaitPthreadLock(w) ==
    /\ pc[w] = "p_lock"
    /\ lock[initial_butex[w]] = 0
    /\ lock' = [lock EXCEPT ![initial_butex[w]] = w]
    /\ pc' = [pc EXCEPT ![w] = "p_locked"]
    /\ UNCHANGED <<value, unlock_nref, waiters, freed, recVars, taskVars, argVars, saved_interruptible,
                   rc, runnable, timer, eraseVars, actorVars, histVars>>

\* Where butex_wait_from_pthread goes when wait_pthread has returned: to
\* "if (task)", which is skipped without a task.
AfterWaitPthread(w) == IF HasTask(w) THEN "p_clear" ELSE "done"

\* The condition under which butex_wait_from_pthread queues the waiter.
ShouldQueuePthread(w) == value[initial_butex[w]] = expected_value[w]

\* butex_wait_from_pthread calling wait_pthread before lck.unlock()
WaitPthreadLocked_WaitUnderLock(w) ==
    /\ pc[w] = "p_locked"
    /\ LET b == initial_butex[w] IN
       IF ShouldQueuePthread(w)
       THEN /\ waiters' = [waiters EXCEPT ![b] = Append2(@, w)]
            /\ container' = [container EXCEPT ![w] = b]
            /\ pc' = [pc EXCEPT ![w] = "futex_wait"]
            /\ NoteEnqueue(w)
            /\ UNCHANGED <<rc, lock>>
       ELSE /\ lock' = [lock EXCEPT ![b] = 0]
            /\ rc' = [rc EXCEPT ![w] = "EWOULDBLOCK"]
            /\ pc' = [pc EXCEPT ![w] = AfterWaitPthread(w)]
            /\ UNCHANGED <<waiters, container, everq>>
    /\ UNCHANGED <<value, unlock_nref, freed, waiter_state, sleep_id, sig, taskVars,
                   argVars, saved_interruptible,
                   runnable, timer, eraseVars, actorVars>>
    /\ UNCHANGED <<nresume, ndeq, dequeuer, snapshot, late, crashed, stopseen,
                   stopincall>>

\* butex_wait_from_pthread under waiter_lock: queue the waiter, or give up.
WaitPthreadLocked(w) ==
    /\ pc[w] = "p_locked"
    /\ LET b == initial_butex[w] IN
       /\ lock' = [lock EXCEPT ![b] = 0]
       /\ IF ShouldQueuePthread(w)
          THEN /\ waiters' = [waiters EXCEPT ![b] = Append2(@, w)]
               /\ container' = [container EXCEPT ![w] = b]
               /\ pc' = [pc EXCEPT ![w] = "futex_wait"]
               /\ NoteEnqueue(w)
               /\ UNCHANGED rc
          ELSE /\ rc' = [rc EXCEPT ![w] = "EWOULDBLOCK"]
               /\ pc' = [pc EXCEPT ![w] = AfterWaitPthread(w)]
               /\ UNCHANGED <<waiters, container, everq>>
    /\ UNCHANGED <<value, unlock_nref, freed, waiter_state, sleep_id, sig, taskVars,
                   argVars, saved_interruptible,
                   runnable, timer, eraseVars, actorVars>>
    /\ UNCHANGED <<nresume, ndeq, dequeuer, snapshot, late, crashed, stopseen, stopincall>>

\* wait_pthread: futex_wait_private(&pw.sig, NOT_SIGNALLED, ptimeout) is
\* entered; the kernel compares the word and either fails with EWOULDBLOCK
\* or puts the thread to sleep.
FutexWaitEnter(w) ==
    /\ pc[w] = "futex_wait"
    /\ IF sig[w] # NOT_SIGNALLED
       THEN /\ rc' = [rc EXCEPT ![w] = "EWOULDBLOCK"]
            /\ pc' = [pc EXCEPT ![w] = "wp_check"]
       ELSE /\ pc' = [pc EXCEPT ![w] = "futex_sleep"]
            /\ UNCHANGED rc
    /\ UNCHANGED <<butexVars, recVars, taskVars, argVars, saved_interruptible,
                   runnable, timer,
                   eraseVars, actorVars, histVars>>

\* futex_wait_private returns -1 with ETIMEDOUT: the relative timeout ran out.
FutexWaitTimeout(w) ==
    /\ pc[w] = "futex_sleep"
    /\ has_abstime[w]
    /\ rc' = [rc EXCEPT ![w] = "ETIMEDOUT"]
    /\ pc' = [pc EXCEPT ![w] = "wp_check"]
    /\ UNCHANGED <<butexVars, recVars, taskVars, argVars, saved_interruptible,
                   runnable, timer,
                   eraseVars, actorVars, histVars>>

\* futex_wait_private returns -1 with EINTR: a signal interrupted the sleep.
FutexWaitInterrupted(w) ==
    /\ pc[w] = "futex_sleep"
    /\ rc' = [rc EXCEPT ![w] = "EINTR"]
    /\ pc' = [pc EXCEPT ![w] = "wp_check"]
    /\ UNCHANGED <<butexVars, recVars, taskVars, argVars, saved_interruptible,
                   runnable, timer,
                   eraseVars, actorVars, histVars>>

\* wait_pthread after futex_wait_private returned: return rc when sig has
\* changed, erase the waiter on a timeout, wait again otherwise.
WaitPthreadCheck(w) ==
    /\ pc[w] = "wp_check"
    /\ IF sig[w] # NOT_SIGNALLED
       THEN /\ pc' = [pc EXCEPT ![w] = AfterWaitPthread(w)]
            /\ UNCHANGED e_w
       ELSE IF rc[w] = "ETIMEDOUT"
       THEN /\ pc' = [pc EXCEPT ![w] = "er_load"]
            /\ e_w' = [e_w EXCEPT ![w] = w]
       ELSE /\ pc' = [pc EXCEPT ![w] = "futex_wait"]
            /\ UNCHANGED e_w
    /\ UNCHANGED <<butexVars, recVars, taskVars, argVars, saved_interruptible,
                   rc, runnable, timer,
                   e_b, erased, actorVars, histVars>>

\* wait_pthread after erase_from_butex(&pw, false) returned.
WaitPthreadErased(w) ==
    /\ w \in Waiters
    /\ pc[w] = "er_ret"
    /\ pc' = [pc EXCEPT ![w] = IF erased[w] THEN AfterWaitPthread(w) ELSE "wp_spin"]
    /\ UNCHANGED <<butexVars, recVars, taskVars, argVars, saved_interruptible,
                   rc, runnable, timer,
                   eraseVars, actorVars, histVars>>

\* BT_LOOP_WHEN(pw.sig.load() != SAFE_TO_DESTROY): spin until the waker that
\* holds pw has signalled it.
WaitPthreadSpin(w) ==
    /\ pc[w] = "wp_spin"
    /\ sig[w] = SAFE_TO_DESTROY
    /\ pc' = [pc EXCEPT ![w] = AfterWaitPthread(w)]
    /\ UNCHANGED <<butexVars, recVars, taskVars, argVars, saved_interruptible,
                   rc, runnable, timer,
                   eraseVars, actorVars, histVars>>

\* butex_wait_from_pthread after the wait: take current_waiter back (spin
\* while a stopper holds it).
WaitPthreadClear(w) ==
    /\ pc[w] = "p_clear"
    /\ set_waiter(w) => current_waiter[w] # NULL
    /\ current_waiter' = [current_waiter EXCEPT ![w] = IF set_waiter(w) THEN NULL ELSE @]
    /\ stopseen' = [stopseen EXCEPT ![w] = HasTask(w) /\ stop[w]]
    /\ pc' = [pc EXCEPT ![w] = "p_result"]
    /\ UNCHANGED <<butexVars, recVars, stop, interruptible, argVars, saved_interruptible,
                   rc, runnable,
                   timer, eraseVars, actorVars>>
    /\ UNCHANGED <<nresume, ndeq, dequeuer, snapshot, everq, late, crashed, stopincall>>

\* The result of butex_wait_from_pthread.
WaitPthreadOutcome(w) == IF HasTask(w) /\ stop[w] THEN "ESTOP" ELSE rc[w]

WaitPthreadResult(w) ==
    /\ pc[w] = "p_result"
    /\ Return(w, WaitPthreadOutcome(w))
    /\ UNCHANGED <<butexVars, recVars, taskVars, argVars, saved_interruptible,
                   runnable, timer,
                   eraseVars, actorVars, histVars>>

\* --------------------------------------------------------- wakeup_pthread
\* pw->sig.store(SAFE_TO_DESTROY, release)
SigStore(w) ==
    /\ sig' = [sig EXCEPT ![w] = SAFE_TO_DESTROY]
    /\ NoteResume(w)

\* futex_wake_private(&pw->sig, 1): a thread sleeping on the word returns 0
\* from futex_wait_private; nothing happens when none sleeps there.
FutexWake(p, w, next) ==
    /\ pc' = [pc EXCEPT ![p] = next,
                        ![w] = IF @ = "futex_sleep" THEN "wp_check" ELSE @]
    /\ rc' = [rc EXCEPT ![w] = IF pc[w] = "futex_sleep" THEN "OK" ELSE @]

\* ------------------------------------------------------- erase_from_butex
\* bool wakeup: true from the timer callback and from stop_butex_wait, false
\* from wait_pthread.
WakeupArg(p) == p \notin Waiters

EraserName(p) ==
    IF p \in Waiters THEN "self" ELSE IF p = TimerThread THEN "timer" ELSE "stop"

\* while ((b = bw->container.load(acquire))): leave the loop on NULL, lock
\* the butex read otherwise.
EraseLoad(p) ==
    /\ pc[p] = "er_load"
    /\ container[e_w[p]] # Uninit
    /\ LET w == e_w[p] IN
       IF container[w] = NULL
       THEN /\ erased' = [erased EXCEPT ![p] = FALSE]
            /\ pc' = [pc EXCEPT ![p] = "er_ret"]
            /\ UNCHANGED e_b
       ELSE /\ e_b' = [e_b EXCEPT ![p] = container[w]]
            /\ pc' = [pc EXCEPT ![p] = "er_lock"]
            /\ UNCHANGED erased
    /\ UNCHANGED <<butexVars, recVars, taskVars, argVars, saved_interruptible,
                   rc, runnable, timer,
                   e_w, actorVars, histVars>>

\* The same load of a container that was never written: the value read is
\* not NULL and is no butex; locking what it points to is undefined.
EraseLoadWild(p) ==
    /\ pc[p] = "er_load"
    /\ container[e_w[p]] = Uninit
    /\ crashed' = TRUE
    /\ pc' = [pc EXCEPT ![p] = "crashed"]
    /\ UNCHANGED <<butexVars, recVars, taskVars, argVars, saved_interruptible,
                   rc, runnable, timer,
                   eraseVars, actorVars>>
    /\ UNCHANGED <<nresume, ndeq, dequeuer, snapshot, everq, late, stopseen, stopincall>>

\* BAIDU_SCOPED_LOCK(b->waiter_lock)
EraseLock(p) ==
    /\ pc[p] = "er_lock"
    /\ lock[e_b[p]] = 0
    /\ lock' = [lock EXCEPT ![e_b[p]] = p]
    /\ pc' = [pc EXCEPT ![p] = "er_locked"]
    /\ UNCHANGED <<value, unlock_nref, waiters, freed, recVars, taskVars, argVars, saved_interruptible,
                   rc, runnable, timer, eraseVars, actorVars, histVars>>

\* erase_from_butex comparing the locked butex with the one the wait was
\* called on
StillInContainer_InitialButex(p) == initial_butex[e_w[p]] = e_b[p]

\* erase_from_butex without the re-check of container under the lock
StillInContainer_NoRecheck(p) == TRUE

\* The re-check under the lock: the waiter is still in the list of b.
StillInContainer(p) == container[e_w[p]] = e_b[p]

\* Under the lock: remove the waiter when its container is still b, else
\* try again with the new container.
EraseLocked(p) ==
    /\ pc[p] = "er_locked"
    /\ LET w == e_w[p]
           b == e_b[p] IN
       /\ lock' = [lock EXCEPT ![b] = 0]
       /\ IF StillInContainer(p)
          THEN /\ waiters' = [waiters EXCEPT ![b] = RemoveFromList(@, w)]
               /\ container' = [container EXCEPT ![w] = NULL]
               /\ waiter_state' = [waiter_state EXCEPT ![w] =
                                      IF tid(w) # 0 THEN "TIMEDOUT" ELSE @]
               /\ erased' = [erased EXCEPT ![p] = TRUE]
               /\ NoteDequeue({w}, EraserName(p))
               /\ UNCHANGED snapshot
               /\ pc' = [pc EXCEPT ![p] =
                            IF ~WakeupArg(p) THEN "er_ret"
                            ELSE IF tid(w) # 0 THEN "er_ready" ELSE "er_sig"]
          ELSE /\ pc' = [pc EXCEPT ![p] = "er_load"]
               /\ UNCHANGED <<waiters, container, waiter_state, erased, ndeq, dequeuer, snapshot>>
    /\ UNCHANGED <<value, unlock_nref, freed, sleep_id, sig, taskVars, argVars, saved_interruptible,
                   rc,
                   runnable, timer, e_w, e_b, actorVars>>
    /\ UNCHANGED <<nresume, everq, late, crashed, stopseen, stopincall>>

\* get_task_group(bbw->control)->ready_to_run(bw->tid)
EraseReady(p) ==
    /\ pc[p] = "er_ready"
    /\ runnable' = [runnable EXCEPT ![e_w[p]] = TRUE]
    /\ NoteResume(e_w[p])
    /\ pc' = [pc EXCEPT ![p] = "er_ret"]
    /\ UNCHANGED <<butexVars, recVars, taskVars, argVars, saved_interruptible,
                   rc, timer,
                   eraseVars, actorVars>>
    /\ UNCHANGED <<ndeq, dequeuer, snapshot, everq, crashed, stopseen, stopincall>>

\* wakeup_pthread(pw), first half
EraseSig(p) ==
    /\ pc[p] = "er_sig"
    /\ SigStore(e_w[p])
    /\ pc' = [pc EXCEPT ![p] = "er_fwake"]
    /\ UNCHANGED <<butexVars, container, waiter_state, sleep_id, taskVars, argVars, saved_interruptible,
                   rc, runnable, timer, eraseVars, actorVars>>
    /\ UNCHANGED <<ndeq, dequeuer, snapshot, everq, crashed, stopseen, stopincall>>

\* wakeup_pthread(pw), second half
EraseFutexWake(p) ==
    /\ pc[p] = "er_fwake"
    /\ FutexWake(p, e_w[p], "er_ret")
    /\ UNCHANGED <<butexVars, recVars, taskVars, argVars, saved_interruptible,
                   runnable, timer,
                   eraseVars, actorVars, histVars>>

\* ----------------------------------------------------------- TimerThread
\* The deadline of the task scheduled for w is reached: TimerThread runs
\* erase_from_butex_and_wakeup(&bbw).
TimerFire(w) ==
    /\ pc[TimerThread] = "idle"
    /\ timer[w] = "scheduled"
    /\ timer' = [timer EXCEPT ![w] = "running"]
    /\ e_w' = [e_w EXCEPT ![TimerThread] = w]
    /\ pc' = [pc EXCEPT ![TimerThread] = "er_load"]
    /\ UNCHANGED <<butexVars, recVars, taskVars, argVars, saved_interruptible,
                   rc, runnable,
                   e_b, erased, actorVars, histVars>>

\* erase_from_butex_and_wakeup returns to TimerThread.
TimerDone ==
    /\ pc[TimerThread] = "er_ret"
    /\ timer' = [timer EXCEPT ![e_w[TimerThread]] = "done"]
    /\ pc' = [pc EXCEPT ![TimerThread] = "idle"]
    /\ UNCHANGED <<butexVars, recVars, taskVars, argVars, saved_interruptible,
                   rc, runnable,
                   eraseVars, actorVars, histVars>>

\* ------------------------------------------------------------- the actors
Finish(a, r) ==
    /\ pc' = [pc EXCEPT ![a] = "done"]
    /\ ret' = [ret EXCEPT ![a] = r]

\* A thread calls butex_wake(b).
StartWake(a, b) ==
    /\ pc[a] = "idle"
    /\ op' = [op EXCEPT ![a] = "wake"]
    /\ arg' = [arg EXCEPT ![a] = b]
    /\ pc' = [pc EXCEPT ![a] = "wk_lock"]
    /\ UNCHANGED <<butexVars, recVars, taskVars, argVars, saved_interruptible,
                   rc, runnable, timer,
                   eraseVars, arg2, front, pthread_waiters, bthread_waiters,
                   nwakeup, ret, histVars>>

\* A thread runs "value = new_value; wake()" of the file header.
StartStoreWake(a, b) ==
    /\ pc[a] = "idle"
    /\ op' = [op EXCEPT ![a] = "store_wake"]
    /\ arg' = [arg EXCEPT ![a] = b]
    /\ pc' = [pc EXCEPT ![a] = "store"]
    /\ UNCHANGED <<butexVars, recVars, taskVars, argVars, saved_interruptible,
                   rc, runnable, timer,
                   eraseVars, arg2, front, pthread_waiters, bthread_waiters,
                   nwakeup, ret, histVars>>

\* The value stored by the waker: one that differs from the current value.
NewValue(b) == 1 - value[b]

\* value = new_value, followed by butex_wake or, from a caller that drops its
\* reference to the butex next, by butex_add_ref_before_wake
StoreValue(a) ==
    /\ pc[a] = "store"
    /\ value' = [value EXCEPT ![arg[a]] = NewValue(arg[a])]
    /\ pc' = [pc EXCEPT ![a] = IF op[a] = "store_ref" THEN "add_ref" ELSE "wk_lock"]
    /\ UNCHANGED <<unlock_nref, waiters, lock, freed, recVars, taskVars, argVars, saved_interruptible,
                   rc,
                   runnable, timer, eraseVars, actorVars, histVars>>

\* BAIDU_SCOPED_LOCK(b->waiter_lock) of butex_wake and
\* butex_wake_and_remove_ref
WakeLock(a) ==
    /\ pc[a] = "wk_lock"
    /\ lock[arg[a]] = 0
    /\ lock' = [lock EXCEPT ![arg[a]] = a]
    /\ pc' = [pc EXCEPT ![a] = "wk_locked"]
    /\ UNCHANGED <<value, unlock_nref, waiters, freed, recVars, taskVars, argVars, saved_interruptible,
                   rc, runnable, timer, eraseVars, actorVars, histVars>>

\* Where a waker goes with the waiter it removed: wakeup_pthread for a
\* pthread waiter (tid 0), unsleep_if_necessary and the scheduler otherwise.
Dispatch(w) == IF tid(w) = 0 THEN "wk_sig" ELSE "wk_unsleep"

\* butex_wake taking the waiter queued last: b->waiters.tail()
WakeChoice_Tail(q) == q[Len(q)]

\* The waiter that butex_wake removes: b->waiters.head()
WakeChoice(q) == Head(q)

\* butex_wake under waiter_lock
WakeLocked(a) ==
    /\ pc[a] = "wk_locked"
    /\ op[a] \in {"wake", "store_wake"}
    /\ LET b == arg[a] IN
       /\ lock' = [lock EXCEPT ![b] = 0]
       /\ IF waiters[b] = <<>>
          THEN /\ Finish(a, 0)
               /\ UNCHANGED <<waiters, container, front, ndeq, dequeuer, snapshot>>
          ELSE LET f == WakeChoice(waiters[b]) IN
               /\ front' = [front EXCEPT ![a] = f]
               /\ waiters' = [waiters EXCEPT ![b] = RemoveFromList(@, f)]
               /\ container' = [container EXCEPT ![f] = NULL]
               /\ NoteDequeue({f}, "wake")
               /\ UNCHANGED snapshot
               /\ pc' = [pc EXCEPT ![a] = Dispatch(f)]
               /\ UNCHANGED ret
    /\ UNCHANGED <<value, unlock_nref, freed, waiter_state, sleep_id, sig, taskVars,
                   argVars, saved_interruptible,
                   rc, runnable, timer, eraseVars, op, arg, arg2,
                   pthread_waiters, bthread_waiters, nwakeup>>
    /\ UNCHANGED <<nresume, everq, late, crashed, stopseen, stopincall>>

\* wakeup_pthread(front), first half
WakeSig(a) ==
    /\ pc[a] = "wk_sig"
    /\ SigStore(front[a])
    /\ pc' = [pc EXCEPT ![a] = "wk_fwake"]
    /\ UNCHANGED <<butexVars, container, waiter_state, sleep_id, taskVars, argVars, saved_interruptible,
                   rc, runnable, timer, eraseVars, actorVars>>
    /\ UNCHANGED <<ndeq, dequeuer, snapshot, everq, crashed, stopseen, stopincall>>

\* wakeup_pthread(front), second half; return 1
WakeFutexWake(a) ==
    /\ pc[a] = "wk_fwake"
    /\ FutexWake(a, front[a], "done")
    /\ ret' = [ret EXCEPT ![a] = 1]
    /\ UNCHANGED <<butexVars, recVars, taskVars, argVars, saved_interruptible,
                   runnable, timer,
                   eraseVars, op, arg, arg2, front, pthread_waiters,
                   bthread_waiters, nwakeup, histVars>>

\* unsleep_if_necessary(bbw, get_global_timer_thread())
WakeUnsleep(a) ==
    /\ pc[a] = "wk_unsleep"
    /\ unsleep_if_necessary(front[a])
    /\ pc' = [pc EXCEPT ![a] = "wk_run"]
    /\ UNCHANGED <<butexVars, container, waiter_state, sig, taskVars, argVars, saved_interruptible,
                   rc,
                   runnable, eraseVars, actorVars, histVars>>

\* TaskGroup::exchange(&g, bbw->tid) on a worker, ready_to_run(bbw->tid)
\* elsewhere: the woken bthread becomes runnable; return 1
WakeRun(a) ==
    /\ pc[a] = "wk_run"
    /\ runnable' = [runnable EXCEPT ![front[a]] = TRUE]
    /\ NoteResume(front[a])
    /\ Finish(a, 1)
    /\ UNCHANGED <<butexVars, recVars, taskVars, argVars, saved_interruptible,
                   rc, timer, eraseVars,
                   op, arg, arg2, front, pthread_waiters, bthread_waiters,
                   nwakeup>>
    /\ UNCHANGED <<ndeq, dequeuer, snapshot, everq, crashed, stopseen, stopincall>>

\* ------------------------------------------- butex_wake_all, butex_wake_except
\* A thread calls butex_wake_all(b).
StartWakeAll(a, b) ==
    /\ pc[a] = "idle"
    /\ op' = [op EXCEPT ![a] = "wake_all"]
    /\ arg' = [arg EXCEPT ![a] = b]
    /\ pc' = [pc EXCEPT ![a] = "wk_lock"]
    /\ UNCHANGED <<butexVars, recVars, taskVars, argVars, saved_interruptible,
                   rc, runnable, timer,
                   eraseVars, arg2, front, pthread_waiters, bthread_waiters,
                   nwakeup, ret, histVars>>

\* A thread calls butex_wake_except(b, excluded_bthread).
StartWakeExcept(a, b, excluded_bthread) ==
    /\ pc[a] = "idle"
    /\ op' = [op EXCEPT ![a] = "wake_except"]
    /\ arg' = [arg EXCEPT ![a] = b]
    /\ arg2' = [arg2 EXCEPT ![a] = excluded_bthread]
    /\ pc' = [pc EXCEPT ![a] = "wk_lock"]
    /\ UNCHANGED <<butexVars, recVars, taskVars, argVars, saved_interruptible,
                   rc, runnable, timer,
                   eraseVars, front, pthread_waiters, bthread_waiters,
                   nwakeup, ret, histVars>>

\* if (bw->tid) bthread_waiters.Append(bw) else pthread_waiters.Append(bw)
BthreadsOf(q) == SelectSeq(q, LAMBDA x : tid(x) # 0)
PthreadsOf(q) == SelectSeq(q, LAMBDA x : tid(x) = 0)

\* butex_wake_except that does not put the excluded bthread back
ExceptKeeps_None(q, excluded_bthread) == <<>>

\* The waiters butex_wake_except leaves in the butex: the excluded bthread.
ExceptKeeps(q, excluded_bthread) ==
    SelectSeq(q, LAMBDA x : tid(x) # 0 /\ tid(x) = excluded_bthread)

\* Where the wake goes once its lists are filled, and after each pthread:
\* the pthread loop, then "return nwakeup" on an empty bthread list, then the
\* bthreads.
LoopPc(o, pl, bl) ==
    IF pl # <<>> THEN "wa_sig"
    ELSE IF bl = <<>> THEN "done"
    ELSE IF o = "wake_except" THEN "wa_b_unsleep"
    ELSE "wa_next_unsleep"

\* The drain of b->waiters under waiter_lock, leaving "keep" in the butex.
Drain(a, keep) ==
    LET b == arg[a]
        taken == SelectSeq(waiters[b], LAMBDA x : ~InList(keep, x))
        ws == {taken[i] : i \in 1..Len(taken)} IN
    /\ waiters' = [waiters EXCEPT ![b] = keep]
    /\ container' = [w \in Waiters |-> IF w \in ws THEN NULL ELSE container[w]]
    /\ pthread_waiters' = [pthread_waiters EXCEPT ![a] = PthreadsOf(taken)]
    /\ bthread_waiters' = [bthread_waiters EXCEPT ![a] = BthreadsOf(taken)]
    /\ nwakeup' = [nwakeup EXCEPT ![a] = 0]
    /\ NoteDequeue(ws, "wake")
    /\ snapshot' = [snapshot EXCEPT ![a] = waiters[b]]
    /\ lock' = [lock EXCEPT ![b] = 0]

\* butex_wake_all under waiter_lock; without remove_ref the wake goes on to
\* its loops.
WakeAllLocked(a) ==
    /\ pc[a] = "wk_locked"
    /\ op[a] \in {"wake_all", "wake_all_ref"}
    /\ Drain(a, <<>>)
    /\ IF op[a] = "wake_all_ref"
       THEN /\ pc' = [pc EXCEPT ![a] = "wa_dec"]
            /\ UNCHANGED ret
       ELSE LET n == LoopPc(op[a], pthread_waiters'[a], bthread_waiters'[a]) IN
            /\ pc' = [pc EXCEPT ![a] = n]
            /\ ret' = [ret EXCEPT ![a] = IF n = "done" THEN 0 ELSE @]
    /\ UNCHANGED <<value, unlock_nref, freed, waiter_state, sleep_id, sig, taskVars,
                   argVars, saved_interruptible,
                   rc, runnable, timer, eraseVars, op, arg, arg2, front>>
    /\ UNCHANGED <<nresume, everq, late, crashed, stopseen, stopincall>>

\* butex_wake_except under waiter_lock
WakeExceptLocked(a) ==
    /\ pc[a] = "wk_locked"
    /\ op[a] = "wake_except"
    /\ Drain(a, ExceptKeeps(waiters[arg[a]], arg2[a]))
    /\ LET n == LoopPc(op[a], pthread_waiters'[a], bthread_waiters'[a]) IN
       /\ pc' = [pc EXCEPT ![a] = n]
       /\ ret' = [ret EXCEPT ![a] = IF n = "done" THEN 0 ELSE @]
    /\ UNCHANGED <<value, unlock_nref, freed, waiter_state, sleep_id, sig, taskVars,
                   argVars, saved_interruptible,
                   rc, runnable, timer, eraseVars, op, arg, arg2, front>>
    /\ UNCHANGED <<nresume, everq, late, crashed, stopseen, stopincall>>

\* if (remove_ref) b->unlock_nref.fetch_sub(1, release)
WakeAllRemoveRef(a) ==
    /\ pc[a] = "wa_dec"
    /\ unlock_nref' = [unlock_nref EXCEPT ![arg[a]] = @ - 1]
    /\ LET n == LoopPc(op[a], pthread_waiters[a], bthread_waiters[a]) IN
       /\ pc' = [pc EXCEPT ![a] = n]
       /\ ret' = [ret EXCEPT ![a] = IF n = "done" THEN 0 ELSE @]
    /\ UNCHANGED <<value, waiters, lock, freed, recVars, taskVars, argVars, saved_interruptible,
                   rc,
                   runnable, timer, eraseVars, op, arg, arg2, front,
                   pthread_waiters, bthread_waiters, nwakeup, histVars>>

\* The last element of a list and the list without it: "pop reversely".
Last(q) == q[Len(q)]
Front(q) == SubSeq(q, 1, Len(q) - 1)

\* wakeup_pthread(bw) of the pthread loop, first half
WakeAllSig(a) ==
    /\ pc[a] = "wa_sig"
    /\ SigStore(Head(pthread_waiters[a]))
    /\ pc' = [pc EXCEPT ![a] = "wa_fwake"]
    /\ UNCHANGED <<butexVars, container, waiter_state, sleep_id, taskVars, argVars, saved_interruptible,
                   rc, runnable, timer, eraseVars, actorVars>>
    /\ UNCHANGED <<ndeq, dequeuer, snapshot, everq, crashed, stopseen, stopincall>>

\* wakeup_pthread(bw) of the pthread loop, second half; ++nwakeup
WakeAllFutexWake(a) ==
    /\ pc[a] = "wa_fwake"
    /\ LET pl == Tail(pthread_waiters[a])
           n == LoopPc(op[a], pl, bthread_waiters[a]) IN
       /\ FutexWake(a, Head(pthread_waiters[a]), n)
       /\ pthread_waiters' = [pthread_waiters EXCEPT ![a] = pl]
       /\ nwakeup' = [nwakeup EXCEPT ![a] = @ + 1]
       /\ ret' = [ret EXCEPT ![a] = IF n = "done" THEN nwakeup[a] + 1 ELSE @]
    /\ UNCHANGED <<butexVars, recVars, taskVars, argVars, saved_interruptible,
                   runnable, timer,
                   eraseVars, op, arg, arg2, front, bthread_waiters,
                   histVars>>

\* butex_wake_all keeping the last bthread of the queue for the exchange
WakeAllNextUnsleep_Tail(a) ==
    /\ pc[a] = "wa_next_unsleep"
    /\ LET next == Last(bthread_waiters[a])
           bl == Front(bthread_waiters[a]) IN
       /\ unsleep_if_necessary(next)
       /\ front' = [front EXCEPT ![a] = next]
       /\ bthread_waiters' = [bthread_waiters EXCEPT ![a] = bl]
       /\ nwakeup' = [nwakeup EXCEPT ![a] = @ + 1]
       /\ pc' = [pc EXCEPT ![a] = IF bl = <<>> THEN "wa_next_run"
                                               ELSE "wa_b_unsleep"]
    /\ UNCHANGED <<butexVars, container, waiter_state, sig, taskVars, argVars, saved_interruptible,
                   rc,
                   runnable, eraseVars, op, arg, arg2, pthread_waiters, ret,
                   histVars>>

\* butex_wake_all: next = bthread_waiters.head();
\* unsleep_if_necessary(next, ...); ++nwakeup
WakeAllNextUnsleep(a) ==
    /\ pc[a] = "wa_next_unsleep"
    /\ LET next == Head(bthread_waiters[a])
           bl == Tail(bthread_waiters[a]) IN
       /\ unsleep_if_necessary(next)
       /\ front' = [front EXCEPT ![a] = next]
       /\ bthread_waiters' = [bthread_waiters EXCEPT ![a] = bl]
       /\ nwakeup' = [nwakeup EXCEPT ![a] = @ + 1]
       /\ pc' = [pc EXCEPT ![a] = IF bl = <<>> THEN "wa_next_run"
                                               ELSE "wa_b_unsleep"]
    /\ UNCHANGED <<butexVars, container, waiter_state, sig, taskVars, argVars, saved_interruptible,
                   rc,
                   runnable, eraseVars, op, arg, arg2, pthread_waiters, ret,
                   histVars>>

\* w = bthread_waiters.tail(); unsleep_if_necessary(w, ...)
WakeAllUnsleep(a) ==
    /\ pc[a] = "wa_b_unsleep"
    /\ unsleep_if_necessary(Last(bthread_waiters[a]))
    /\ pc' = [pc EXCEPT ![a] = "wa_b_ready"]
    /\ UNCHANGED <<butexVars, container, waiter_state, sig, taskVars, argVars, saved_interruptible,
                   rc,
                   runnable, eraseVars, actorVars, histVars>>

\* g->ready_to_run_nosignal(w->tid); ++nwakeup, and the end of the loop:
\* butex_wake_except returns, butex_wake_all goes on to next.
WakeAllReady(a) ==
    /\ pc[a] = "wa_b_ready"
    /\ LET w == Last(bthread_waiters[a])
           bl == Front(bthread_waiters[a]) IN
       /\ runnable' = [runnable EXCEPT ![w] = TRUE]
       /\ NoteResume(w)
       /\ bthread_waiters' = [bthread_waiters EXCEPT ![a] = bl]
       /\ nwakeup' = [nwakeup EXCEPT ![a] = @ + 1]
       /\ IF bl # <<>>
          THEN /\ pc' = [pc EXCEPT ![a] = "wa_b_unsleep"]
               /\ UNCHANGED ret
          ELSE IF op[a] = "wake_except"
          THEN Finish(a, nwakeup[a] + 1)
          ELSE /\ pc' = [pc EXCEPT ![a] = "wa_next_run"]
               /\ UNCHANGED ret
    /\ UNCHANGED <<butexVars, recVars, taskVars, argVars, saved_interruptible,
                   rc, timer, eraseVars,
                   op, arg, arg2, front, pthread_waiters>>
    /\ UNCHANGED <<ndeq, dequeuer, snapshot, everq, crashed, stopseen, stopincall>>

\* TaskGroup::exchange(&g, next->tid) or g->ready_to_run(next->tid);
\* return nwakeup
WakeAllRun(a) ==
    /\ pc[a] = "wa_next_run"
    /\ runnable' = [runnable EXCEPT ![front[a]] = TRUE]
    /\ NoteResume(front[a])
    /\ Finish(a, nwakeup[a])
    /\ UNCHANGED <<butexVars, recVars, taskVars, argVars, saved_interruptible,
                   rc, timer, eraseVars,
                   op, arg, arg2, front, pthread_waiters, bthread_waiters,
                   nwakeup>>
    /\ UNCHANGED <<ndeq, dequeuer, snapshot, everq, crashed, stopseen, stopincall>>

\* --------------------------------------------------------- butex_requeue
\* A thread calls butex_requeue(b, m).
StartRequeue(a, b, m) ==
    /\ pc[a] = "idle"
    /\ b # m
    /\ op' = [op EXCEPT ![a] = "requeue"]
    /\ arg' = [arg EXCEPT ![a] = b]
    /\ arg2' = [arg2 EXCEPT ![a] = m]
    /\ pc' = [pc EXCEPT ![a] = "rq_lock1"]
    /\ UNCHANGED <<butexVars, recVars, taskVars, argVars, saved_interruptible,
                   rc, runnable, timer,
                   eraseVars, front, pthread_waiters, bthread_waiters,
                   nwakeup, ret, histVars>>

\* double_lock taking lck1 first whatever the addresses
DoubleLockFirst_ArgumentOrder(b, m) == b

\* base::double_lock(lck1, lck2): the mutex locked first, the one at the
\* lower address (a butex's number stands for its address), and the other.
DoubleLockFirst(b, m) == IF b < m THEN b ELSE m
DoubleLockSecond(b, m) == IF DoubleLockFirst(b, m) = b THEN m ELSE b

\* base::double_lock, the first mutex
RequeueLock1(a) ==
    /\ pc[a] = "rq_lock1"
    /\ LET l == DoubleLockFirst(arg[a], arg2[a]) IN
       /\ lock[l] = 0
       /\ lock' = [lock EXCEPT ![l] = a]
    /\ pc' = [pc EXCEPT ![a] = "rq_lock2"]
    /\ UNCHANGED <<value, unlock_nref, waiters, freed, recVars, taskVars, argVars, saved_interruptible,
                   rc, runnable, timer, eraseVars, actorVars, histVars>>

\* base::double_lock, the second mutex
RequeueLock2(a) ==
    /\ pc[a] = "rq_lock2"
    /\ LET l == DoubleLockSecond(arg[a], arg2[a]) IN
       /\ lock[l] = 0
       /\ lock' = [lock EXCEPT ![l] = a]
    /\ pc' = [pc EXCEPT ![a] = "rq_locked"]
    /\ UNCHANGED <<value, unlock_nref, waiters, freed, recVars, taskVars, argVars, saved_interruptible,
                   rc, runnable, timer, eraseVars, actorVars, histVars>>

\* butex_requeue moving the waiters without the store to their container
RequeueMove_KeepContainer(src, dst, cont, m) ==
    [src |-> <<>>, dst |-> dst \o src, container |-> cont]

\* while (!b->waiters.empty()) { bw = head; bw->RemoveFromList();
\* m->waiters.Append(bw); bw->container.store(m) }: the two queues and the
\* container fields when the loop is left.
RECURSIVE RequeueMove(_, _, _, _)
RequeueMove(src, dst, cont, m) ==
    IF src = <<>>
    THEN [src |-> src, dst |-> dst, container |-> cont]
    ELSE LET bw == Head(src) IN
         RequeueMove(RemoveFromList(src, bw), Append2(dst, bw),
                     [cont EXCEPT ![bw] = m], m)

\* butex_requeue under both waiter_locks
RequeueLocked(a) ==
    /\ pc[a] = "rq_locked"
    /\ LET b == arg[a]
           m == arg2[a] IN
       /\ lock' = [lock EXCEPT ![b] = 0, ![m] = 0]
       /\ IF waiters[b] = <<>>
          THEN /\ Finish(a, 0)
               /\ UNCHANGED <<waiters, container, front, ndeq, dequeuer, snapshot>>
          ELSE LET f == Head(waiters[b])
                   r == RequeueMove(RemoveFromList(waiters[b], f), waiters[m],
                                    [container EXCEPT ![f] = NULL], m) IN
               /\ front' = [front EXCEPT ![a] = f]
               /\ waiters' = [waiters EXCEPT ![b] = r.src, ![m] = r.dst]
               /\ container' = r.container
               /\ NoteDequeue({f}, "wake")
               /\ UNCHANGED snapshot
               /\ pc' = [pc EXCEPT ![a] = Dispatch(f)]
               /\ UNCHANGED ret
    /\ UNCHANGED <<value, unlock_nref, freed, waiter_state, sleep_id, sig, taskVars,
                   argVars, saved_interruptible,
                   rc, runnable, timer, eraseVars, op, arg, arg2,
                   pthread_waiters, bthread_waiters, nwakeup>>
    /\ UNCHANGED <<nresume, everq, late, crashed, stopseen, stopincall>>

\* ------------------------------------- unlock_nref and the *_remove_ref wakes
\* A thread runs "value = new_value" and then an announced wake.
StartStoreRef(a, b) ==
    /\ pc[a] = "idle"
    /\ op' = [op EXCEPT ![a] = "store_ref"]
    /\ arg' = [arg EXCEPT ![a] = b]
    /\ pc' = [pc EXCEPT ![a] = "store"]
    /\ UNCHANGED <<butexVars, recVars, taskVars, argVars, saved_interruptible,
                   rc, runnable, timer,
                   eraseVars, arg2, front, pthread_waiters, bthread_waiters,
                   nwakeup, ret, histVars>>

\* butex_add_ref_before_wake(b): the caller announces a wake.
AddRefBeforeWake(a) ==
    /\ pc[a] = "add_ref"
    /\ unlock_nref' = [unlock_nref EXCEPT ![arg[a]] = @ + 1]
    /\ pc' = [pc EXCEPT ![a] = "announced"]
    /\ UNCHANGED <<value, waiters, lock, freed, recVars, taskVars, argVars, saved_interruptible,
                   rc,
                   runnable, timer, eraseVars, actorVars, histVars>>

\* butex_remove_ref(b)
RemoveRef(a) ==
    /\ pc[a] = "announced"
    /\ unlock_nref' = [unlock_nref EXCEPT ![arg[a]] = @ - 1]
    /\ op' = [op EXCEPT ![a] = "remove_ref"]
    /\ Finish(a, 0)
    /\ UNCHANGED <<value, waiters, lock, freed, recVars, taskVars, argVars, saved_interruptible,
                   rc,
                   runnable, timer, eraseVars, arg, arg2, front,
                   pthread_waiters, bthread_waiters, nwakeup, histVars>>

\* The announced wake is butex_wake_and_remove_ref(b) or
\* butex_wake_all_and_remove_ref(b).
StartWakeRef(a, o) ==
    /\ pc[a] = "announced"
    /\ o \in {"wake_ref", "wake_all_ref"}
    /\ op' = [op EXCEPT ![a] = o]
    /\ pc' = [pc EXCEPT ![a] = "wk_lock"]
    /\ UNCHANGED <<butexVars, recVars, taskVars, argVars, saved_interruptible,
                   rc, runnable, timer,
                   eraseVars, arg, arg2, front, pthread_waiters,
                   bthread_waiters, nwakeup, ret, histVars>>

\* butex_wake_and_remove_ref under waiter_lock: on an empty queue the
\* fetch_sub runs inside the scope of the lock, which is released after it.
WakeRefLocked(a) ==
    /\ pc[a] = "wk_locked"
    /\ op[a] = "wake_ref"
    /\ LET b == arg[a] IN
       IF waiters[b] = <<>>
       THEN /\ unlock_nref' = [unlock_nref EXCEPT ![b] = @ - 1]
            /\ pc' = [pc EXCEPT ![a] = "wr_unlock"]
            /\ UNCHANGED <<waiters, lock, container, front, ndeq, dequeuer, snapshot>>
       ELSE LET f == WakeChoice(waiters[b]) IN
            /\ front' = [front EXCEPT ![a] = f]
            /\ waiters' = [waiters EXCEPT ![b] = RemoveFromList(@, f)]
            /\ container' = [container EXCEPT ![f] = NULL]
            /\ NoteDequeue({f}, "wake")
            /\ UNCHANGED snapshot
            /\ lock' = [lock EXCEPT ![b] = 0]
            /\ pc' = [pc EXCEPT ![a] = "wr_dec"]
            /\ UNCHANGED unlock_nref
    /\ UNCHANGED <<value, freed, waiter_state, sleep_id, sig, taskVars, argVars, saved_interruptible,
                   rc, runnable, timer, eraseVars, op, arg, arg2,
                   pthread_waiters, bthread_waiters, nwakeup, ret>>
    /\ UNCHANGED <<nresume, everq, late, crashed, stopseen, stopincall>>

\* "return 0" of the empty queue: the scoped lock unlocks b->waiter_lock.
WakeRefUnlock(a) ==
    /\ pc[a] = "wr_unlock"
    /\ lock' = [lock EXCEPT ![arg[a]] = 0]
    /\ Finish(a, 0)
    /\ UNCHANGED <<value, unlock_nref, waiters, freed, recVars, taskVars, argVars, saved_interruptible,
                   rc, runnable, timer, eraseVars, op, arg, arg2, front,
                   pthread_waiters, bthread_waiters, nwakeup, histVars>>

\* b->unlock_nref.fetch_sub(1, release) before the waiter is resumed
WakeRefDec(a) ==
    /\ pc[a] = "wr_dec"
    /\ unlock_nref' = [unlock_nref EXCEPT ![arg[a]] = @ - 1]
    /\ pc' = [pc EXCEPT ![a] = Dispatch(front[a])]
    /\ UNCHANGED <<value, waiters, lock, freed, recVars, taskVars, argVars, saved_interruptible,
                   rc,
                   runnable, timer, eraseVars, actorVars, histVars>>

\* ------------------------------------------- butex_destroy, butex_destruct
\* The caller of butex_destroy/butex_destruct "must ensure no new wait or
\* wake begins": every wait has returned and every other thread has at
\* least announced its wake.
MayDestroy(a, b) ==
    /\ pc[a] = "idle"
    /\ freed[b] = "live"
    /\ \A w \in Callers : pc[w] = "done"
    /\ \A o \in Actors \ {a} : pc[o] \notin {"idle", "store", "add_ref"}

\* butex_destroy(b): delete b
Destroy(a, b) ==
    /\ MayDestroy(a, b)
    /\ freed' = [freed EXCEPT ![b] = "destroyed"]
    /\ op' = [op EXCEPT ![a] = "destroy"]
    /\ arg' = [arg EXCEPT ![a] = b]
    /\ Finish(a, 0)
    /\ UNCHANGED <<value, unlock_nref, waiters, lock, recVars, taskVars, argVars, saved_interruptible,
                   rc, runnable, timer, eraseVars, arg2, front,
                   pthread_waiters, bthread_waiters, nwakeup, histVars>>

\* A thread calls butex_destruct(b).
StartDestruct(a, b) ==
    /\ MayDestroy(a, b)
    /\ op' = [op EXCEPT ![a] = "destruct"]
    /\ arg' = [arg EXCEPT ![a] = b]
    /\ pc' = [pc EXCEPT ![a] = "ds_spin"]
    /\ UNCHANGED <<butexVars, recVars, taskVars, argVars, saved_interruptible,
                   rc, runnable, timer,
                   eraseVars, arg2, front, pthread_waiters, bthread_waiters,
                   nwakeup, ret, histVars>>

\* butex_destruct: leave the loop on unlock_nref == 0, then b->~Butex()
Destruct(a) ==
    /\ pc[a] = "ds_spin"
    /\ unlock_nref[arg[a]] = 0
    /\ freed' = [freed EXCEPT ![arg[a]] = "destructed"]
    /\ Finish(a, 0)
    /\ UNCHANGED <<value, unlock_nref, waiters, lock, recVars, taskVars, argVars, saved_interruptible,
                   rc, runnable, timer, eraseVars, op, arg, arg2, front,
                   pthread_waiters, bthread_waiters, nwakeup, histVars>>

\* A wake that reads or writes the butex after its storage was released: the
\* access may find the memory as it was (the wake goes on) or fault.
TouchesButex(a) ==
    pc[a] \in {"wk_lock", "wk_locked", "wr_unlock", "wr_dec", "wa_dec"}

UseAfterFree(a) ==
    /\ TouchesButex(a)
    /\ freed[arg[a]] # "live"
    /\ crashed' = TRUE
    /\ pc' = [pc EXCEPT ![a] = "crashed"]
    /\ UNCHANGED <<butexVars, recVars, taskVars, argVars, saved_interruptible,
                   rc, runnable, timer,
                   eraseVars, actorVars, nresume, ndeq, dequeuer, snapshot, everq, late,
                   stopseen, stopincall>>

\* -------------------------------------------------------- stop_butex_wait
\* A thread calls stop_butex_wait(t).
StartStop(a, t) ==
    /\ pc[a] = "idle"
    /\ HasTask(t)
    /\ op' = [op EXCEPT ![a] = "stop"]
    /\ arg2' = [arg2 EXCEPT ![a] = t]
    /\ pc' = [pc EXCEPT ![a] = "st_consume"]
    /\ UNCHANGED <<butexVars, recVars, taskVars, argVars, saved_interruptible,
                   rc, runnable, timer,
                   eraseVars, arg, front, pthread_waiters, bthread_waiters,
                   nwakeup, ret, histVars>>

\* stop_and_consume_butex_waiter(tid, &w): set task.stop and take
\* task.current_waiter, leaving NULL.
StopAndConsume(a) ==
    /\ pc[a] = "st_consume"
    /\ LET t == arg2[a]
           w == current_waiter[t] IN
       /\ stop' = [stop EXCEPT ![t] = TRUE]
       /\ current_waiter' = [current_waiter EXCEPT ![t] = NULL]
       /\ stopincall' = [stopincall EXCEPT ![t] = @ \/ Alive(t)]
       /\ IF w = NULL
          THEN /\ Finish(a, 0)
               /\ UNCHANGED e_w
          ELSE /\ e_w' = [e_w EXCEPT ![a] = w]
               /\ pc' = [pc EXCEPT ![a] = "er_load"]
               /\ UNCHANGED ret
    /\ UNCHANGED <<butexVars, recVars, interruptible, argVars, saved_interruptible,
                   rc, runnable, timer,
                   e_b, erased, op, arg, arg2, front, pthread_waiters,
                   bthread_waiters, nwakeup>>
    /\ UNCHANGED <<nresume, ndeq, dequeuer, snapshot, everq, late, crashed, stopseen>>

\* set_butex_waiter(tid, w) after erase_from_butex(w, true); return 0
StopSetBack(a) ==
    /\ a \in Actors
    /\ pc[a] = "er_ret"
    /\ current_waiter' = [current_waiter EXCEPT ![arg2[a]] = e_w[a]]
    /\ Finish(a, 0)
    /\ UNCHANGED <<butexVars, recVars, stop, interruptible, argVars, saved_interruptible,
                   rc, runnable,
                   timer, eraseVars, op, arg, arg2, front, pthread_waiters,
                   bthread_waiters, nwakeup, histVars>>

\* ------------------------------------------------------------------- Init
\* The state after construction: butex_create/butex_construct have run
\* (value 0 here, unlock_nref 0, no waiter), no call has started.
InitProgram ==
    /\ value = [b \in Butexes |-> 0]
    /\ unlock_nref = [b \in Butexes |-> 0]
    /\ waiters = [b \in Butexes |-> <<>>]
    /\ lock = [b \in Butexes |-> 0]
    /\ freed = [b \in Butexes |-> "live"]
    /\ container = [w \in Waiters |-> NULL]
    /\ waiter_state = [w \in Waiters |-> "NONE"]
    /\ sleep_id = [w \in Waiters |-> 0]
    /\ sig = [w \in Waiters |-> NOT_SIGNALLED]
    /\ stop = [w \in Waiters |-> FALSE]
    /\ interruptible = interruptible0
    /\ saved_interruptible = [w \in Waiters |-> <<>>]
    /\ current_waiter = [w \in Waiters |-> NULL]
    /\ pc = [p \in Procs |-> IF p \in Waiters \ Callers THEN "absent" ELSE "idle"]
    /\ rc = [w \in Waiters |-> "none"]
    /\ runnable = [w \in Waiters |-> FALSE]
    /\ timer = [w \in Waiters |-> "none"]
    /\ e_w = [p \in Procs |-> 0]
    /\ e_b = [p \in Procs |-> 0]
    /\ erased = [p \in Procs |-> FALSE]
    /\ op = [a \in Actors |-> "none"]
    /\ arg = [a \in Actors |-> 0]
    /\ arg2 = [a \in Actors |-> 0]
    /\ front = [a \in Actors |-> 0]
    /\ pthread_waiters = [a \in Actors |-> <<>>]
    /\ bthread_waiters = [a \in Actors |-> <<>>]
    /\ nwakeup = [a \in Actors |-> 0]
    /\ ret = [a \in Actors |-> 0]
    /\ nresume = [w \in Waiters |-> 0]
    /\ ndeq = [w \in Waiters |-> 0]
    /\ snapshot = [a \in Actors |-> <<>>]
    /\ dequeuer = [w \in Waiters |-> "none"]
    /\ everq = [w \in Waiters |-> FALSE]
    /\ late = [w \in Waiters |-> FALSE]
    /\ crashed = FALSE
    /\ stopseen = [w \in Waiters |-> FALSE]
    /\ stopincall = [w \in Waiters |-> FALSE]

\* The arguments of the calls: every caller waits on butex 1 for the value 0,
\* from any kind of thread, with or without a deadline.
InitCalls ==
    /\ kind \in [Waiters -> Kinds]
    /\ expected_value = [w \in Waiters |-> 0]
    /\ initial_butex = [w \in Waiters |-> 1]
    /\ has_abstime \in [Waiters -> BOOLEAN]
    /\ timeout_us \in [Waiters -> Timeouts]
    /\ \A w \in Waiters : ~has_abstime[w] => timeout_us[w] = LEAST_SLEEP_US + 1
    /\ \A w \in Waiters \ Callers : kind[w] = "bthread" /\ ~has_abstime[w]

\* The tasks are interruptible, as TaskMeta is constructed.
InitArgs ==
    /\ InitCalls
    /\ interruptible0 = [w \in Waiters |-> TRUE]

Init == InitArgs /\ InitProgram

\* ------------------------------------------------------------------- Next
WaitBthreadStep(w) ==
    \/ WaitMismatch(w)
    \/ WaitBthreadExpired(w)
    \/ WaitBthreadTimerStopped(w)
    \/ WaitBthreadArm(w)
    \/ WaitBthreadPublish(w)
    \/ WaitForButexLock(w)
    \/ WaitForButexLocked(w)
    \/ WaitForButexCancel(w)
    \/ Resume(w)
    \/ WaitUnsleep(w)
    \/ WaitClearWaiter(w)
    \/ WaitResult(w)

WaitPthreadStep(w) ==
    \/ WaitPthreadExpired(w)
    \/ WaitPthreadInit(w)
    \/ WaitPthreadCheckStop(w)
    \/ WaitPthreadPublish(w)
    \/ WaitPthreadLock(w)
    \/ WaitPthreadLocked(w)
    \/ FutexWaitEnter(w)
    \/ FutexWaitTimeout(w)
    \/ FutexWaitInterrupted(w)
    \/ WaitPthreadCheck(w)
    \/ WaitPthreadErased(w)
    \/ WaitPthreadSpin(w)
    \/ WaitPthreadClear(w)
    \/ WaitPthreadResult(w)

EraseDequeue(p) ==
    \/ EraseLoad(p)
    \/ EraseLock(p)
    \/ EraseLocked(p)

EraseStep(p) ==
    \/ EraseDequeue(p)
    \/ EraseReady(p)
    \/ EraseSig(p)
    \/ EraseFutexWake(p)

TimerStep ==
    \/ \E w \in Waiters : TimerFire(w)
    \/ TimerDone

WakeStep(a) ==
    \/ StoreValue(a)
    \/ WakeLock(a)
    \/ WakeLocked(a)
    \/ WakeSig(a)
    \/ WakeFutexWake(a)
    \/ WakeUnsleep(a)
    \/ WakeRun(a)

StopStep(a) ==
    \/ StopAndConsume(a)
    \/ StopSetBack(a)

Next ==
    \/ \E w \in Waiters : WaitBthreadStep(w) \/ WaitPthreadStep(w)
    \/ \E p \in Procs : EraseStep(p) \/ EraseLoadWild(p)
    \/ TimerStep
    \/ StartStoreWake(A1, 1) \/ StartWake(A1, 1) \/ WakeStep(A1)
    \/ (\E t \in Callers : StartStop(A2, t)) \/ StopStep(A2)

Spec == Init /\ [][Next]_vars

\* ------------------------------------------------- the queue scenario
\* The butex each waiter of the queue scenario waits on: the last one on
\* butex 2, the others on butex 1.
QueueOf(w) == IF w = NW + NP THEN 2 ELSE 1

\* The queue of butex b when the waiters have queued in the order of their
\* numbers.
RECURSIVE QueuedUpTo(_, _)
QueuedUpTo(b, n) ==
    IF n = 0 THEN <<>>
    ELSE IF QueueOf(n) = b THEN Append2(QueuedUpTo(b, n - 1), n)
    ELSE QueuedUpTo(b, n - 1)

\* The waiter of the queue scenario that is of any kind and is followed to
\* the return of its butex_wait; the others are bthreads without a deadline,
\* followed until they are made runnable. Any of them may be stopped.
Followed == {w \in Callers : \A x \in Callers : w <= x}

\* The state in which every waiter has run butex_wait on its butex up to
\* the suspension: a bthread is switched out with its timer armed and its
\* waiter published and queued, a pthread is queued and about to enter
\* futex_wait_private. No wake, requeue or stop has started. A pthread is
\* given a deadline: without one it does the same except for the timeout.
InitQueue ==
    /\ kind \in [Waiters -> Kinds]
    /\ \A w \in Waiters \ Followed : kind[w] = "bthread"
    /\ has_abstime \in [Waiters -> BOOLEAN]
    /\ \A w \in Waiters \ Followed : ~has_abstime[w]
    /\ \A w \in Followed : kind[w] # "bthread" => has_abstime[w]
    /\ timeout_us = [w \in Waiters |-> LEAST_SLEEP_US + 1]
    /\ expected_value = [w \in Waiters |-> 0]
    /\ initial_butex = [w \in Waiters |-> QueueOf(w)]
    /\ value = [b \in Butexes |-> 0]
    /\ unlock_nref = [b \in Butexes |-> 0]
    /\ waiters = [b \in Butexes |-> QueuedUpTo(b, NW + NP)]
    /\ lock = [b \in Butexes |-> 0]
    /\ freed = [b \in Butexes |-> "live"]
    /\ container = [w \in Waiters |-> QueueOf(w)]
    /\ waiter_state = [w \in Waiters |->
           IF kind[w] = "bthread" /\ has_abstime[w] THEN "TIMED" ELSE "NONE"]
    /\ sleep_id = [w \in Waiters |->
           IF kind[w] = "bthread" /\ has_abstime[w] THEN w ELSE 0]
    /\ timer = [w \in Waiters |->
           IF kind[w] = "bthread" /\ has_abstime[w] THEN "scheduled" ELSE "none"]
    /\ sig = [w \in Waiters |-> NOT_SIGNALLED]
    /\ stop = [w \in Waiters |-> FALSE]
    /\ interruptible0 = [w \in Waiters |-> TRUE]
    /\ interruptible = interruptible0
    /\ saved_interruptible = [w \in Waiters |-> <<>>]
    /\ current_waiter = [w \in Waiters |->
           IF kind[w] = "bthread" \/ set_waiter(w) THEN w ELSE NULL]
    /\ pc = [p \in Procs |->
           IF p \in Waiters
           THEN (IF kind[p] = "bthread" THEN "suspended" ELSE "futex_wait")
           ELSE "idle"]
    /\ rc = [w \in Waiters |-> IF kind[w] = "bthread" THEN "none" ELSE "OK"]
    /\ runnable = [w \in Waiters |-> FALSE]
    /\ e_w = [p \in Procs |-> 0]
    /\ e_b = [p \in Procs |-> 0]
    /\ erased = [p \in Procs |-> FALSE]
    /\ op = [a \in Actors |-> "none"]
    /\ arg = [a \in Actors |-> 0]
    /\ arg2 = [a \in Actors |-> 0]
    /\ front = [a \in Actors |-> 0]
    /\ pthread_waiters = [a \in Actors |-> <<>>]
    /\ bthread_waiters = [a \in Actors |-> <<>>]
    /\ nwakeup = [a \in Actors |-> 0]
    /\ ret = [a \in Actors |-> 0]
    /\ nresume = [w \in Waiters |-> 0]
    /\ ndeq = [w \in Waiters |-> 0]
    /\ snapshot = [a \in Actors |-> <<>>]
    /\ dequeuer = [w \in Waiters |-> "none"]
    /\ everq = [w \in Waiters |-> TRUE]
    /\ late = [w \in Waiters |-> FALSE]
    /\ crashed = FALSE
    /\ stopseen = [w \in Waiters |-> FALSE]
    /\ stopincall = [w \in Waiters |-> FALSE]

\* butex_wait of a queued waiter, from its resumption to the return
QueuedBthreadStep(w) ==
    \/ Resume(w)
    \/ WaitUnsleep(w)
    \/ WaitClearWaiter(w)
    \/ WaitResult(w)

QueuedPthreadStep(w) ==
    \/ FutexWaitEnter(w)
    \/ FutexWaitTimeout(w)
    \/ WaitPthreadCheck(w)
    \/ WaitPthreadErased(w)
    \/ WaitPthreadSpin(w)
    \/ WaitPthreadClear(w)
    \/ WaitPthreadResult(w)

WakeAllStep(a) ==
    \/ WakeAllLocked(a)
    \/ WakeExceptLocked(a)
    \/ WakeAllSig(a)
    \/ WakeAllFutexWake(a)
    \/ WakeAllNextUnsleep(a)
    \/ WakeAllUnsleep(a)
    \/ WakeAllReady(a)
    \/ WakeAllRun(a)

RequeueStep(a) ==
    \/ RequeueLock1(a)
    \/ RequeueLock2(a)
    \/ RequeueLocked(a)

\* The single-waiter wake of butex_wake and butex_requeue
WakeOneStep(a) ==
    \/ WakeLock(a)
    \/ WakeLocked(a)
    \/ WakeSig(a)
    \/ WakeFutexWake(a)
    \/ WakeUnsleep(a)
    \/ WakeRun(a)

\* One thread wakes on butex 1 or 2 or requeues from 1 to 2, the other stops a
\* waiter or requeues from 2 to 1.
NextQueue ==
    \/ \E w \in Followed : QueuedBthreadStep(w) \/ QueuedPthreadStep(w)
    \/ \E p \in Procs : EraseStep(p)
    \/ TimerStep
    \/ (\E b \in Butexes : StartWake(A1, b))
    \/ StartWakeAll(A1, 1) \/ StartRequeue(A1, 1, 2)
    \/ (\E t \in {0} \cup Waiters : StartWakeExcept(A1, 1, t))
    \/ (\E t \in Waiters : StartStop(A2, t)) \/ StartRequeue(A2, 2, 1)
    \/ (\E a \in Actors : WakeOneStep(a) \/ WakeAllStep(a) \/ RequeueStep(a))
    \/ StopStep(A2)

SpecQueue == InitQueue /\ [][NextQueue]_vars

\* ------------------------------------------------- the lifecycle scenario
\* The announced wakes: butex_add_ref_before_wake, then one of
\* butex_remove_ref, butex_wake_and_remove_ref, butex_wake_all_and_remove_ref
RefStep(a) ==
    \/ StoreValue(a)
    \/ AddRefBeforeWake(a)
    \/ RemoveRef(a)
    \/ (\E o \in {"wake_ref", "wake_all_ref"} : StartWakeRef(a, o))
    \/ WakeLock(a)
    \/ WakeRefLocked(a)
    \/ WakeRefUnlock(a)
    \/ WakeRefDec(a)
    \/ WakeAllLocked(a)
    \/ WakeAllRemoveRef(a)
    \/ UseAfterFree(a)

\* The resumption of the waiters that an announced wake removed
RefResumeStep(a) ==
    \/ WakeSig(a)
    \/ WakeFutexWake(a)
    \/ WakeUnsleep(a)
    \/ WakeRun(a)
    \/ WakeAllSig(a)
    \/ WakeAllFutexWake(a)
    \/ WakeAllNextUnsleep(a)
    \/ WakeAllRun(a)

\* The callers wait on butex 1, one thread announces and runs a wake on it,
\* another one destroys or destructs it once the waits have returned.
NextRef ==
    \/ \E w \in Waiters : WaitBthreadStep(w) \/ WaitPthreadStep(w)
    \/ \E p \in Procs : EraseDequeue(p) \/ EraseReady(p)
    \/ TimerStep
    \/ StartStoreRef(A1, 1) \/ RefStep(A1) \/ RefResumeStep(A1)
    \/ Destroy(A2, 1) \/ StartDestruct(A2, 1) \/ Destruct(A2)

SpecRef == Init /\ [][NextRef]_vars

\* ------------------------------------------ butex_wait_uninterruptible
\* TaskMeta* caller of butex_wait_uninterruptible: NULL without a TaskGroup
caller(w) == HasTask(w)

\* butex_wait_uninterruptible up to its call of butex_wait: save the flag of
\* the caller and clear it.
UninterruptibleEnter(w) ==
    /\ pc[w] = "idle"
    /\ saved_interruptible[w] = <<>>
    /\ saved_interruptible' = [saved_interruptible EXCEPT ![w] =
                                  IF caller(w) THEN <<interruptible[w]>> ELSE <<TRUE>>]
    /\ interruptible' = [interruptible EXCEPT ![w] = IF caller(w) THEN FALSE ELSE @]
    /\ UNCHANGED <<butexVars, recVars, stop, current_waiter, argVars, pc, rc,
                   runnable, timer, eraseVars, actorVars, histVars>>

\* butex_wait_uninterruptible leaving the flag cleared
UninterruptibleReturn_NoRestore(w) ==
    /\ pc[w] = "done"
    /\ saved_interruptible[w] # <<>>
    /\ pc' = [pc EXCEPT ![w] = "u_done"]
    /\ UNCHANGED <<butexVars, recVars, taskVars, argVars, saved_interruptible, rc,
                   runnable, timer, eraseVars, actorVars, histVars>>

\* butex_wait_uninterruptible after butex_wait has returned: put the flag back
\* and return rc.
UninterruptibleReturn(w) ==
    /\ pc[w] = "done"
    /\ saved_interruptible[w] # <<>>
    /\ interruptible' = [interruptible EXCEPT ![w] =
                            IF caller(w) THEN saved_interruptible[w][1] ELSE @]
    /\ pc' = [pc EXCEPT ![w] = "u_done"]
    /\ UNCHANGED <<butexVars, recVars, stop, current_waiter, argVars,
                   saved_interruptible, rc, runnable, timer, eraseVars, actorVars,
                   histVars>>

\* The callers' tasks are interruptible or not when the calls are made.
InitUninterruptible ==
    /\ InitCalls
    /\ interruptible0 \in [Waiters -> BOOLEAN]
    /\ \A w \in Waiters \ Callers : interruptible0[w]
    /\ InitProgram

\* The callers wait through butex_wait or butex_wait_uninterruptible, one
\* thread stores and wakes, another one stops a caller.
NextUninterruptible ==
    \/ Next
    \/ \E w \in Callers : UninterruptibleEnter(w) \/ UninterruptibleReturn(w)

SpecUninterruptible == InitUninterruptible /\ [][NextUninterruptible]_vars

\* =================================================================== claims
Queued(w) == \E b \in Butexes : InList(waiters[b], w)

\* C1: no lost wake-up. Once a waker has run "value = new_value; wake()" to
\* the end, either the wake found the queue empty, and then no caller that
\* expects the old value is in the queue (each saw the new value at entry or
\* under waiter_lock), or the wake removed a waiter and has resumed it.
C1_NoLostWakeup ==
    (op[A1] = "store_wake" /\ pc[A1] = "done") =>
        IF ret[A1] = 0
        THEN \A w \in Callers : ~Queued(w)
        ELSE /\ ~Queued(front[A1])
             /\ nresume[front[A1]] >= 1

C1_Witness ==
    /\ op[A1] = "store_wake" /\ pc[A1] = "done" /\ ret[A1] = 1
    /\ \E w \in Callers : pc[w] = "done" /\ dequeuer[w] = "wake" /\ front[A1] = w

C3_WakeReturnsZero ==
    \A w \in Waiters :
        (pc[w] = "done" /\ dequeuer[w] = "wake" /\ ~(HasTask(w) /\ stop[w]))
            => rc[w] = "OK"

\* C4: a timed wait that nobody wakes or stops leaves the queue when its
\* deadline has passed: once the timer callback of the wait has run to its
\* end, with no wake, requeue or stop issued, the waiter is in no queue.
C4_TimedWaitLeavesQueue ==
    \A w \in Callers :
        (/\ has_abstime[w] /\ timeout_us[w] > LEAST_SLEEP_US
         /\ pc[A1] = "idle" /\ pc[A2] = "idle"
         /\ timer[w] = "done")
            => ~Queued(w)

\* C5: a stop_butex_wait that found the waiter published and has returned 0
\* leaves the waiter out of the queue (the wait then returns ESTOP).
C5_StopInterrupts ==
    \A t \in Callers :
        (op[A2] = "stop" /\ pc[A2] = "done" /\ arg2[A2] = t /\ e_w[A2] = t)
            => ~Queued(t)

\* C6, for a stop at any point of the call: a wait during which task.stop
\* was set returns ESTOP.
C6_StopPriorityAnyPoint ==
    \A w \in Callers :
        (pc[w] = "done" /\ stopincall[w]) => rc[w] = "ESTOP"

\* C6, for a stop the wait can see: a wait that passed its entry checks and
\* finds task.stop set when it takes task.current_waiter back returns ESTOP,
\* also when its waiter was cancelled or timed out.
C6_StopPriority ==
    \A w \in Callers :
        (pc[w] = "done" /\ stopseen[w]) => rc[w] = "ESTOP"

C6_Witness ==
    \E w \in Callers :
        /\ pc[w] = "done" /\ stopseen[w] /\ rc[w] = "ESTOP"
        /\ waiter_state[w] = "TIMEDOUT" /\ dequeuer[w] = "timer"

\* C7: requeue conservation. The step of butex_requeue(src, dst) under the
\* two locks changes neither queue and returns 0 when src is empty;
\* otherwise it takes the head of src out (container NULL) to resume it,
\* leaves src empty and dst equal to its former waiters followed by the
\* other waiters of src in their order, each with container dst, and changes
\* no other container. A requeue that has returned returned 0 or 1, and 1
\* with the head resumed once.
C7_Step(a) ==
    LET src == arg[a]
        dst == arg2[a]
        others == Tail(waiters[src]) IN
    IF waiters[src] = <<>>
    THEN /\ waiters' = waiters
         /\ container' = container
         /\ pc'[a] = "done" /\ ret'[a] = 0
    ELSE /\ front'[a] = Head(waiters[src])
         /\ waiters'[src] = <<>>
         /\ waiters'[dst] = waiters[dst] \o others
         /\ \A w \in Waiters :
               container'[w] =
                   IF w = Head(waiters[src]) THEN NULL
                   ELSE IF InList(others, w) THEN dst
                   ELSE container[w]
         /\ pc'[a] \in {"wk_sig", "wk_unsleep"}

C7_Returned(a) ==
    (op[a] = "requeue" /\ pc[a] = "done") =>
        /\ ret[a] \in {0, 1}
        /\ ret[a] = 1 =>
              /\ nresume[front[a]] = 1
              /\ container[front[a]] = NULL
              /\ ~Queued(front[a])

\* C7: requeue conservation, as the effect of the locked step of every
\* butex_requeue together with the state of every returned butex_requeue.
C7_RequeueConservation ==
    /\ [][\A a \in Actors :
            (pc[a] = "rq_locked" /\ pc'[a] # "rq_locked") => C7_Step(a)]_vars
    /\ [](\A a \in Actors : C7_Returned(a))

C7_Witness ==
    /\ op[A1] = "requeue" /\ pc[A1] = "done" /\ ret[A1] = 1
    /\ waiters[1] = <<>>
    /\ Len(waiters[2]) >= 3
    /\ QueueOf(waiters[2][1]) = 2
    /\ \A i \in 2..Len(waiters[2]) :
          QueueOf(waiters[2][i]) = 1 /\ container[waiters[2][i]] = 2
    /\ pc[front[A1]] = "done" /\ rc[front[A1]] = "OK"

\* The waiter_lock a thread is about to take, 0 when it is not taking one.
WaitsFor(p) ==
    CASE p \in Actors /\ pc[p] = "wk_lock" -> arg[p]
      [] p \in Actors /\ pc[p] = "rq_lock1" -> DoubleLockFirst(arg[p], arg2[p])
      [] p \in Actors /\ pc[p] = "rq_lock2" -> DoubleLockSecond(arg[p], arg2[p])
      [] pc[p] = "er_lock" -> e_b[p]
      [] p \in Waiters /\ pc[p] \in {"sched", "p_lock"} -> initial_butex[p]
      [] OTHER -> 0

C8_NoLockCycle ==
    \A p, q \in Procs : \A b, c \in Butexes :
        ~(/\ p # q /\ b # c
          /\ lock[b] = p /\ WaitsFor(p) = c
          /\ lock[c] = q /\ WaitsFor(q) = b)

\* The steps of thread p in the queue scenario.
ThreadStep(p) ==
    \/ p \in Followed /\ (QueuedBthreadStep(p) \/ QueuedPthreadStep(p))
    \/ EraseStep(p)
    \/ p = TimerThread /\ TimerDone
    \/ p \in Actors /\ (WakeOneStep(p) \/ WakeAllStep(p) \/ RequeueStep(p))
    \/ p = A2 /\ StopStep(p)

\* A requeue that has not returned can take its next step, or it waits for
\* a waiter_lock whose holder can take a step.
C8_RequeueProceeds(a) ==
    (op[a] = "requeue" /\ pc[a] # "done") =>
        \/ ENABLED ThreadStep(a)
        \/ /\ WaitsFor(a) # 0
           /\ \E p \in Procs \ {a} :
                 lock[WaitsFor(a)] = p /\ ENABLED ThreadStep(p)

\* C8: requeue deadlock freedom. With requeue(a, b) and requeue(b, a) running
\* concurrently, among wakes, timeouts and stops on both butexes, no two
\* threads each hold one waiter_lock and wait for the other, and neither
\* requeue is ever stuck before its return; every thread runs a bounded
\* number of steps, so that both requeues return.
C8_RequeueDeadlockFree ==
    /\ C8_NoLockCycle
    /\ \A a \in Actors : C8_RequeueProceeds(a)

C8_Witness ==
    /\ \A a \in Actors : op[a] = "requeue"
    /\ arg[A1] = arg2[A2] /\ arg2[A1] = arg[A2]
    /\ pc[A2] = "rq_lock2" /\ lock[arg2[A2]] = A2
    /\ pc[A1] = "rq_lock1" /\ WaitsFor(A1) = arg2[A2]

\* C9: destroy and destruct wait out the announced wakes: a butex is freed
\* or torn down only with unlock_nref == 0.
C9_DestroyWaitsForWakes ==
    \A b \in Butexes : freed[b] # "live" => unlock_nref[b] = 0

\* C10: an announced wake does not touch the butex after its decrement of
\* unlock_nref, so that no wake still has an access to the butex ahead of it
\* when butex_destruct has left its loop and torn the butex down.
C10_NoAccessAfterRemoveRef ==
    \A a \in Actors : \A b \in Butexes :
        (freed[b] = "destructed" /\ op[a] \in {"wake_ref", "wake_all_ref"}
            /\ arg[a] = b)
            => ~TouchesButex(a)

\* The entry step of a wait whose deadline is at most LEAST_SLEEP_US ahead,
\* called with a matching value.
C11_ExpiredEntry(w) ==
    /\ pc[w] = "idle" /\ pc'[w] # "idle"
    /\ has_abstime[w] /\ timeout_us[w] <= LEAST_SLEEP_US
    /\ value[initial_butex[w]] = expected_value[w]

\* C11: timeout lower bound. A wait with a matching value and a deadline at
\* most LEAST_SLEEP_US ahead returns ETIMEDOUT in its first step, on the
\* bthread path and on the pthread path: no waiter is queued, no timer is
\* scheduled, task.current_waiter is not published and the queues are as
\* they were.
C11_TimeoutLowerBound ==
    [][\A w \in Callers :
          C11_ExpiredEntry(w) =>
              /\ pc'[w] = "done" /\ rc'[w] = "ETIMEDOUT"
              /\ UNCHANGED <<waiters, container, timer, sleep_id,
                             current_waiter, everq>>]_vars

C11_Witness ==
    \E w \in Callers :
        /\ pc[w] = "done" /\ rc[w] = "ETIMEDOUT"
        /\ has_abstime[w] /\ timeout_us[w] = LEAST_SLEEP_US
        /\ ~everq[w] /\ timer[w] = "none" /\ current_waiter[w] = NULL

\* The step of butex_wake under waiter_lock, as C12 states it.
C12_Step(a) ==
    LET b == arg[a] IN
    IF waiters[b] = <<>>
    THEN /\ pc'[a] = "done" /\ ret'[a] = 0
         /\ UNCHANGED <<waiters, container, runnable, sig, waiter_state>>
    ELSE LET head == waiters[b][1] IN
         /\ front'[a] = head
         /\ waiters' = [waiters EXCEPT ![b] = Tail(waiters[b])]
         /\ container' = [container EXCEPT ![head] = NULL]
         /\ pc'[a] \in {"wk_sig", "wk_unsleep"}

C12_Returned(a) ==
    (op[a] = "wake" /\ pc[a] = "done") =>
        /\ ret[a] \in {0, 1}
        /\ ret[a] = 1 =>
              /\ nresume[front[a]] = 1
              /\ container[front[a]] = NULL
              /\ ~Queued(front[a])

\* C12: butex_wake wakes one waiter if any. On an empty queue it returns 0
\* and changes nothing; otherwise it removes exactly the head of the queue,
\* sets its container to NULL, leaves the other waiters queued in their order
\* with their containers, resumes the head once and returns 1.
C12_WakeOne ==
    /\ [][\A a \in Actors :
            (op[a] = "wake" /\ pc[a] = "wk_locked" /\ pc'[a] # "wk_locked")
                => C12_Step(a)]_vars
    /\ [](\A a \in Actors : C12_Returned(a))

C12_Witness ==
    /\ op[A1] = "wake" /\ pc[A1] = "done" /\ ret[A1] = 1
    /\ arg[A1] = 1 /\ front[A1] = QueuedUpTo(1, NW + NP)[1]
    /\ Len(waiters[1]) >= 2
    /\ \A i \in 1..Len(waiters[1]) : container[waiters[1][i]] = 1
    /\ nresume[front[A1]] = 1

\* A butex_wake that found its queue empty.
C12_WitnessEmpty ==
    /\ op[A1] = "wake" /\ pc[A1] = "done" /\ ret[A1] = 0
    /\ waiters[arg[A1]] = <<>>

\* The position of w in the list q, 0 when it is not there.
C13_IndexOf(q, w) ==
    IF InList(q, w) THEN CHOOSE i \in 1..Len(q) : q[i] = w ELSE 0

\* The step of butex_wake_all under waiter_lock: the queue is emptied and the
\* container of each waiter found there is NULL.
C13_Step(a) ==
    LET b == arg[a] IN
    /\ waiters' = [waiters EXCEPT ![b] = <<>>]
    /\ container' = [w \in Waiters |->
                        IF InList(waiters[b], w) THEN NULL ELSE container[w]]
    /\ snapshot'[a] = waiters[b]

\* A step in which butex_wake_all resumes a bthread: the bthreads found
\* after it in the queue have been resumed, those found before it have not,
\* so that the first one, the primary, comes last.
C13_Order(a) ==
    \A w \in Waiters :
        (nresume'[w] # nresume[w] /\ tid(w) # 0) =>
            LET B == BthreadsOf(snapshot[a])
                i == C13_IndexOf(B, w) IN
            /\ i # 0
            /\ \A j \in 1..Len(B) :
                  j # i => ((nresume[B[j]] >= 1) <=> (j > i))

C13_Returned(a) ==
    (op[a] = "wake_all" /\ pc[a] = "done") =>
        /\ ret[a] = Len(snapshot[a])
        /\ \A i \in 1..Len(snapshot[a]) :
              LET w == snapshot[a][i] IN
              /\ container[w] = NULL
              /\ nresume[w] = 1
              /\ ~Queued(w)

\* C13: butex_wake_all wakes all and returns the count. It returns the
\* number of waiters, pthreads and bthreads, that were in the queue when it
\* took waiter_lock; each of them has container NULL, is resumed exactly once
\* and is in no queue afterwards; the bthreads are made ready in reverse
\* queue order and the first of them is resumed last.
C13_WakeAll ==
    /\ [][\A a \in Actors :
            (op[a] = "wake_all" /\ pc'[a] # pc[a]) =>
                /\ pc[a] = "wk_locked" => C13_Step(a)
                /\ C13_Order(a)]_vars
    /\ [](\A a \in Actors : C13_Returned(a))

C13_Witness ==
    /\ op[A1] = "wake_all" /\ pc[A1] = "done" /\ ret[A1] >= 3
    /\ snapshot[A1] = QueuedUpTo(1, NW + NP)
    /\ \A i \in 1..ret[A1] : kind[snapshot[A1][i]] = "bthread"
    /\ front[A1] = snapshot[A1][1]
    /\ pc[front[A1]] = "done" /\ rc[front[A1]] = "OK"

\* A butex_wake_all that found a pthread ahead of the bthreads.
C13_WitnessMixed ==
    /\ op[A1] = "wake_all" /\ pc[A1] = "done" /\ ret[A1] >= 3
    /\ kind[snapshot[A1][1]] = "pthread"
    /\ front[A1] = snapshot[A1][2]

\* The waiters of the list q that butex_wake_except(b, excluded) is to wake.
C14_Woken(q, excluded) ==
    {q[i] : i \in {j \in 1..Len(q) : tid(q[j]) = 0 \/ tid(q[j]) # excluded}}

\* The step of butex_wake_except under waiter_lock: the waiters to wake leave
\* the queue with container NULL, the excluded bthread is what is left of the
\* queue and its record is as it was.
C14_Step(a) ==
    LET b == arg[a]
        q == waiters[b]
        woken == C14_Woken(q, arg2[a]) IN
    /\ \A w \in woken : ~InList(waiters'[b], w) /\ container'[w] = NULL
    /\ \A w \in Waiters \ woken : container'[w] = container[w]
    /\ \A i \in 1..Len(q) :
          q[i] \notin woken =>
              /\ waiters'[b] = <<q[i]>>
              /\ container'[q[i]] = b
    /\ (\A i \in 1..Len(q) : q[i] \in woken) => waiters'[b] = <<>>
    /\ \A c \in Butexes \ {b} : waiters'[c] = waiters[c]
    /\ UNCHANGED <<waiter_state, sleep_id, timer, runnable, nresume>>

\* No step of butex_wake_except changes the record, the timer or the run
\* state of the bthread it excludes.
C14_ExcludedUntouched(a) ==
    \A w \in Waiters :
        (tid(w) # 0 /\ tid(w) = arg2[a]) =>
            /\ waiter_state'[w] = waiter_state[w]
            /\ sleep_id'[w] = sleep_id[w]
            /\ timer'[w] = timer[w]
            /\ container'[w] = container[w]
            /\ nresume'[w] = nresume[w]

C14_Returned(a) ==
    (op[a] = "wake_except" /\ pc[a] = "done") =>
        LET woken == C14_Woken(snapshot[a], arg2[a]) IN
        /\ ret[a] = Cardinality(woken)
        /\ \A w \in woken :
              container[w] = NULL /\ nresume[w] = 1 /\ ~Queued(w)

\* C14: butex_wake_except wakes all except one bthread. Every queued pthread
\* and every queued bthread whose tid is not the excluded one leaves the
\* queue with container NULL and is resumed exactly once; the excluded
\* bthread, if queued, is left as the only waiter of the queue with its
\* container, timer and waiter_state as they were; the return value counts
\* the waiters resumed.
C14_WakeExcept ==
    /\ [][\A a \in Actors :
            (op[a] = "wake_except" /\ pc'[a] # pc[a]) =>
                /\ pc[a] = "wk_locked" => C14_Step(a)
                /\ C14_ExcludedUntouched(a)]_vars
    /\ [](\A a \in Actors : C14_Returned(a))

C14_Witness ==
    /\ op[A1] = "wake_except" /\ pc[A1] = "done" /\ ret[A1] >= 2
    /\ Len(snapshot[A1]) = ret[A1] + 1
    /\ snapshot[A1][2] = arg2[A1]
    /\ waiters[1] = <<arg2[A1]>> /\ container[arg2[A1]] = 1
    /\ nresume[arg2[A1]] = 0

\* C15: container invariant. Whenever nobody holds the waiter_lock of butex
\* b, a waiter record has container == b exactly when it is in b's queue
\* (so that no waiter is in two queues).
C15_ContainerInvariant ==
    \A b \in Butexes :
        lock[b] = 0 =>
            \A w \in Waiters : (container[w] = b) <=> InList(waiters[b], w)

\* The same for the records of bthreads, whose container butex_wait sets to
\* NULL when it builds them.
C15_ContainerInvariantBthread ==
    \A b \in Butexes :
        lock[b] = 0 =>
            \A w \in Waiters :
                kind[w] = "bthread" =>
                    ((container[w] = b) <=> InList(waiters[b], w))

\* C16: timer firing before enqueue prevents enqueue. No timed bthread
\* waiter enters a queue after its timer callback has run: a step that
\* appends the waiter is never taken once erase_from_butex_and_wakeup has
\* returned for it.
C16_NoEnqueueAfterTimer ==
    [][\A w \in Callers :
          (kind[w] = "bthread" /\ has_abstime[w] /\ timer[w] = "done")
              => (Queued(w)' => Queued(w))]_vars

\* The thread p is inside the loop of erase_from_butex.
C17_Erasing(p) == pc[p] \in {"er_load", "er_lock", "er_locked"}

\* A step of erase_from_butex(w, _): it changes a queue or the record only
\* under the lock of the butex whose queue w is in, and then unlinks w from
\* that queue, stores NULL to w.container and reports true; otherwise it
\* changes nothing and, after the locked re-check, loads the container again.
C17_Step(p) ==
    LET w == e_w[p]
        b == e_b[p] IN
    IF pc[p] = "er_locked" /\ lock[b] = p /\ InList(waiters[b], w)
    THEN /\ container[w] = b
         /\ waiters' = [waiters EXCEPT ![b] = RemoveFromList(@, w)]
         /\ container' = [container EXCEPT ![w] = NULL]
         /\ erased'[p]
    ELSE /\ UNCHANGED <<waiters, container, waiter_state, sig, runnable>>
         /\ pc[p] = "er_locked" => pc'[p] = "er_load" /\ container[w] # b

\* The thread p can take a step, or it waits for a waiter_lock at the end of
\* a chain of at most n holders of which the last can take a step.
RECURSIVE C17_Unblocked(_, _)
C17_Unblocked(p, n) ==
    \/ ENABLED ThreadStep(p)
    \/ /\ n > 0 /\ WaitsFor(p) # 0
       /\ \E q \in Procs \ {p} :
             lock[WaitsFor(p)] = q /\ C17_Unblocked(q, n - 1)

\* erase_from_butex is not stuck in its loop.
C17_Proceeds(p) ==
    C17_Erasing(p) => C17_Unblocked(p, Cardinality(Butexes))

\* erase_from_butex has left its loop: with true the waiter is out of every
\* queue with container NULL and this call removed it; with false another
\* path had removed it and this call did not.
C17_Result(p) ==
    pc[p] = "er_ret" =>
        LET w == e_w[p] IN
        IF erased[p]
        THEN container[w] = NULL /\ ~Queued(w) /\ dequeuer[w] = EraserName(p)
        ELSE ndeq[w] = 1 /\ dequeuer[w] # EraserName(p)

C17_WitnessRetry ==
    /\ pc[A2] = "er_load" /\ e_b[A2] = 1
    /\ container[e_w[A2]] = 2 /\ InList(waiters[2], e_w[A2])

\* The remote thread p still has an access to the waiter record of w ahead
\* of it, other than the futex_wake on &sig: a stopper between
\* stop_and_consume_butex_waiter and set_butex_waiter, the timer callback, a
\* waker between its dequeue and the resumption of the waiter.
C18_Holds(p, w) ==
    \/ /\ p = A2 /\ op[p] = "stop" /\ e_w[p] = w
       /\ pc[p] \in {"er_load", "er_lock", "er_locked", "er_ready", "er_sig",
                     "er_fwake", "er_ret"}
    \/ p = TimerThread /\ timer[w] = "running"
    \/ /\ p \in Actors /\ front[p] = w
       /\ pc[p] \in {"wk_sig", "wk_unsleep", "wk_run", "wa_b_unsleep",
                     "wa_b_ready", "wa_next_run"}
    \/ /\ p \in Actors /\ pc[p] \in {"wa_dec", "wa_sig"}
       /\ InList(pthread_waiters[p], w)
    \/ /\ p \in Actors /\ pc[p] = "wa_fwake"
       /\ InList(Tail(pthread_waiters[p]), w)
    \/ /\ p \in Actors
       /\ pc[p] \in {"wa_dec", "wa_sig", "wa_fwake", "wa_next_unsleep",
                     "wa_b_unsleep", "wa_b_ready"}
       /\ InList(bthread_waiters[p], w)

\* C18: escape-from-stack handshake. When a wait has returned, its waiter
\* record is in no queue, no stopper, timer callback or waker still holds it,
\* and nobody has written to it after the return.
C18_NoEscapeFromStack ==
    \A w \in Callers :
        pc[w] = "done" =>
            /\ ~Queued(w)
            /\ ~late[w]
            /\ \A p \in Procs : ~C18_Holds(p, w)

\* The same for the waits whose record has its container initialised or
\* unread before the enqueue: bthreads, and pthreads without a task.
C18_NoEscapeInitialised ==
    \A w \in Callers :
        (pc[w] = "done" /\ kind[w] # "ptask") =>
            /\ ~Queued(w)
            /\ ~late[w]
            /\ \A p \in Procs : ~C18_Holds(p, w)

\* The thread p is in, or about to make, a call that can block or spin: the
\* kernel futex wait, the switch to another bthread, a call of the timer
\* service (schedule/unschedule), or one of the spins of the wait.
C19_Blocking(p) ==
    pc[p] \in {"futex_wait", "futex_sleep", "suspended", "wfb_cancel",
               "unsleep", "clear_cw", "wp_spin", "p_clear",
               "wk_unsleep", "wa_next_unsleep", "wa_b_unsleep"}

\* C19: no blocking under the waiter lock. A thread that sleeps in the
\* kernel futex wait, is switched out, calls the timer service or spins
\* holds no waiter_lock.
C19_NoBlockingUnderLock ==
    \A p \in Procs : \A b \in Butexes : C19_Blocking(p) => lock[b] # p

C19_Witness ==
    \E w \in Callers :
        /\ kind[w] # "bthread" /\ pc[w] = "futex_sleep" /\ Queued(w)
        /\ \E a \in Actors :
              pc[a] = "wk_locked" /\ lock[initial_butex[w]] = a

\* C20: EWOULDBLOCK means the waiter never blocked. A wait that returns
\* EWOULDBLOCK never had its waiter in a queue.
C20_WouldBlockNeverQueued ==
    \A w \in Callers :
        (pc[w] = "done" /\ rc[w] = "EWOULDBLOCK") => ~everq[w]

\* ---------------------------------------------------------------- C21
\* The call of butex_wait_uninterruptible of w has been entered and has not
\* returned.
C21_InCall(w) == saved_interruptible[w] # <<>> /\ pc[w] # "u_done"

\* From the entry to the return of butex_wait the flag of the calling task
\* is false.
C21_Disabled ==
    \A w \in Callers : (caller(w) /\ C21_InCall(w)) => ~interruptible[w]

\* After the return, with any result, the flag has its value of before.
C21_Restored ==
    \A w \in Callers : pc[w] = "u_done" => interruptible[w] = interruptible0[w]

\* The pthread path does not publish its waiter: current_waiter stays NULL
\* and no stop_butex_wait is handed the waiter.
C21_NotPublished ==
    \A w \in Callers :
        (kind[w] = "ptask" /\ C21_InCall(w)) =>
            /\ current_waiter[w] = NULL
            /\ \A a \in Actors : ~(op[a] = "stop" /\ e_w[a] = w)

\* While the flag is false, wait_for_butex queues the waiter whenever the
\* value matches and the timer has not fired, whether stop is set or not.
C21_Enqueues ==
    \A w \in Callers :
        (/\ pc[w] = "wfb_locked" /\ pc'[w] # "wfb_locked"
         /\ ~interruptible[w]
         /\ value[initial_butex[w]] = expected_value[w]
         /\ waiter_state[w] # "TIMEDOUT") =>
            /\ InList(waiters'[initial_butex[w]], w)
            /\ container'[w] = initial_butex[w]

\* C21: butex_wait_uninterruptible called from a task keeps task.interruptible
\* false from its entry until butex_wait returns and puts the value of before
\* the call back on every return path; while the flag is false, a set
\* task.stop does not keep wait_for_butex from queueing the waiter, and the
\* pthread path does not publish its waiter in task.current_waiter.
C21_Uninterruptible ==
    /\ [](C21_Disabled /\ C21_Restored /\ C21_NotPublished)
    /\ [][C21_Enqueues]_vars

\* An interruptible bthread waits uninterruptibly; stop_butex_wait has run
\* before the waiter was published and has found nothing, and the waiter is
\* queued and suspended with stop set.
C21_Witness ==
    \E w \in Callers :
        /\ kind[w] = "bthread" /\ interruptible0[w] /\ C21_InCall(w)
        /\ stop[w] /\ pc[w] = "suspended" /\ ~runnable[w]
        /\ InList(waiters[initial_butex[w]], w)
        /\ op[A2] = "stop" /\ pc[A2] = "done" /\ arg2[A2] = w /\ e_w[A2] = 0

\* A task that was interruptible is interruptible again after the return.
C21_WitnessRestored ==
    \E w \in Callers :
        /\ pc[w] = "u_done" /\ caller(w) /\ everq[w]
        /\ interruptible0[w] /\ interruptible[w]

\* ---------------------------------------------------------------- C22
\* The waiter of w is published and w has not appended it to a queue.
C22_Window(w) == Alive(w) /\ current_waiter[w] = w /\ ~everq[w]

\* C22: a waiter that is published in task.current_waiter and has not been
\* queued yet has a NULL container, the waiter of a bthread and the waiter of
\* a pthread alike, so that a stop_butex_wait or a timer callback that
\* arrives then locks no butex and unlinks nothing.
C22_PublishedNullContainer ==
    \A w \in Callers : C22_Window(w) => container[w] = NULL

\* The same for the waiters of bthreads, whose container butex_wait
\* initialises.
C22_PublishedNullContainerBthread ==
    \A w \in Callers :
        (kind[w] = "bthread" /\ C22_Window(w)) => container[w] = NULL

\* ---------------------------------------------------------------- C23
\* C23: no returned waiter stays queued. Every waiter record linked in the
\* list of a butex belongs to a butex_wait that has not returned: when a wait
\* has returned, with any result, its record is in no queue.
C23_NoReturnedWaiterQueued ==
    \A b \in Butexes : \A i \in 1..Len(waiters[b]) :
        pc[waiters[b][i]] # "done"

\* The same for the waits whose record has its container initialised or
\* unread before the enqueue: bthreads, and pthreads without a task.
C23_NoReturnedWaiterQueuedInitialised ==
    \A b \in Butexes : \A i \in 1..Len(waiters[b]) :
        kind[waiters[b][i]] # "ptask" => pc[waiters[b][i]] # "done"

\* After the return of such a wait its container points to no butex and no
\* wake, requeue, timer callback or stop dequeues or resumes its waiter.
C23_ReturnedUntouched ==
    [][\A w \in Callers :
          (pc[w] = "done" /\ kind[w] # "ptask" /\ everq[w]) =>
              /\ container[w] = NULL
              /\ ndeq'[w] = ndeq[w] /\ nresume'[w] = nresume[w]]_vars

\* ---------------------------------------------------------------- C24
\* The stop_butex_wait of a has consumed the waiter w and has not put it back.
C24_Consumed(a, w) ==
    /\ op[a] = "stop" /\ e_w[a] = w
    /\ pc[a] \in {"er_load", "er_lock", "er_locked", "er_ready", "er_sig",
                  "er_fwake", "er_ret", "crashed"}

\* After the return current_waiter does not designate the waiter of the call
\* and no stopper is left that would store it there.
C24_Cleared ==
    \A w \in Callers :
        pc[w] = "done" =>
            /\ current_waiter[w] # w
            /\ \A a \in Actors : ~C24_Consumed(a, w)

\* A return that precedes the publication (mismatch at entry, deadline
\* within LEAST_SLEEP_US, timer service stopped, stop already set on the
\* pthread path) leaves current_waiter as it was.
C24_EarlyReturn ==
    \A w \in Callers :
        (pc[w] \in {"idle", "p_chkstop"} /\ pc'[w] = "done") =>
            current_waiter' = current_waiter

\* C24: current_waiter is cleared by its owner. A butex_wait that stored its
\* waiter into task.current_waiter has exchanged it back to NULL when it
\* returns, on every return path and whatever a stop_butex_wait that consumed
\* and restored it did in between; the returns that precede the publication
\* leave current_waiter untouched; so after a return current_waiter never
\* designates the destroyed waiter of that call.
C24_ClearedByOwner ==
    /\ [](C24_Cleared)
    /\ [][C24_EarlyReturn]_vars

\* A wait whose waiter was consumed by stop_butex_wait while a wake removed it
\* from the queue: it has returned after the stopper put the waiter back.
C24_Witness ==
    \E w \in Callers :
        /\ pc[w] = "done" /\ dequeuer[w] = "wake" /\ current_waiter[w] = NULL
        /\ op[A2] = "stop" /\ pc[A2] = "done" /\ e_w[A2] = w /\ ~erased[A2]

====
